---- MODULE Spec2Model ----
(***************************************************************************)
(* Model of the signal-routing graph of the modular synthesizer            *)
(* (src/src/audio/graph.rs, AudioGraph) together with the module           *)
(* descriptors it is fed (src/src/modules/types.rs).                       *)
(*                                                                         *)
(* The graph is a map of nodes keyed by module id, a list of connections   *)
(* and an optional active output.  Every public operation of AudioGraph    *)
(* is a pure operator on a graph value (translated statement by statement  *)
(* from the Rust) and an action that applies it to the state.              *)
(*                                                                         *)
(* The module also models AudioEngine with its control thread and audio    *)
(* callback (src/src/audio/engine.rs) and StepSequencer                    *)
(* (src/src/modules/sequencer.rs).  Each component has its own             *)
(* specification over the shared set of variables: Spec and SpecSignal     *)
(* for the graph, SpecEngine for the engine, SpecSeq and SpecSeqRun for    *)
(* the sequencer; a specification leaves the other components' variables   *)
(* at their initial values.                                                *)
(***************************************************************************)
EXTENDS Integers, Sequences, FiniteSets, TLC

VARIABLES nodes, connections, output_node, connectable, last, buffer

\* AudioEngine and its two threads (src/src/audio/engine.rs).
VARIABLES current_frequency, current_amplitude, frequency_lock,
          amplitude_lock, control, callback, PHASE, changed_at

\* The state of the graph and of its caller's output buffer.
graph_vars == <<nodes, connections, output_node, connectable, last, buffer>>

\* The state of the engine, of the control thread and of the audio callback.
engine_vars == <<current_frequency, current_amplitude, frequency_lock,
                 amplitude_lock, control, callback, PHASE, changed_at>>

\* StepSequencer (src/src/modules/sequencer.rs): the sequencer, what the
\* latest call was and returned, the tempo last handed to set_bpm, and
\* the count of ticks and step boundaries of a timed run.
VARIABLES sequencer, seq_last, tempo, run

seq_vars == <<sequencer, seq_last, tempo, run>>

\* Values handled on their own: a ModuleParameter (types.rs).
\* and an AudioModule with its typed setters (modules/*.rs).
\* and an ADSREnvelope (utils/math.rs) with the record of its last call.
\* and a SimpleDelay (audio/nodes.rs) with the inputs it was given.
\* and a MultiOscillator (audio/nodes.rs) with its last output.
VARIABLES param, audio_module, envelope, env_last, simple_delay, delay_last,
          oscillator, osc_last

\* The application (app/state.rs, app/modes.rs): its modules by id, its
\* connection list, its selection and its mode.
VARIABLES app

part_vars ==
    <<param, audio_module, envelope, env_last, simple_delay, delay_last,
      oscillator, osc_last, app>>

vars == <<graph_vars, engine_vars, seq_vars, part_vars>>

\* What the actions of one component leave alone: the other components.
outside_graph == <<engine_vars, seq_vars, part_vars>>
outside_engine == <<graph_vars, seq_vars, part_vars>>
outside_seq == <<graph_vars, engine_vars, part_vars>>

\* The frame of an action on the one variable of part_vars named `part`.
Rest(part) ==
    /\ UNCHANGED <<graph_vars, engine_vars, seq_vars>>
    /\ part # "param" => UNCHANGED param
    /\ part # "module" => UNCHANGED audio_module
    /\ part # "envelope" => UNCHANGED <<envelope, env_last>>
    /\ part # "delay" => UNCHANGED <<simple_delay, delay_last>>
    /\ part # "oscillator" => UNCHANGED <<oscillator, osc_last>>
    /\ part # "app" => UNCHANGED app

(***************************************************************************)
(* Bounds of the model.                                                    *)
(***************************************************************************)
\* Cap on the length of the connection list (the Vec is unbounded).
MaxConns == 2

\* Longest output buffer handed to process.
MaxFrames == 2

\* Cap on the samples one audio unit is ticked for.
MaxSamples == 3

\* Longest buffer the device hands to the audio callback.
BlockFrames == 2

\* The audio stream is followed until PHASE has counted this many samples.
MaxPhase == 4

\* Number of steps of the sequencer that is edited while it plays.
NumSteps == 2
\* The longest an envelope is ticked in one state.
MaxHeld == 4
\* The longest delay line, in samples, and the ticks it is followed for.
MaxDelay == 2
MaxDelayTicks == 4
\* The samples an oscillator is followed for.
MaxOscTicks == 4
\* The modules an application creates in all, its first two included.
MaxAppModules == 3

(***************************************************************************)
(* Module descriptors (types.rs).                                          *)
(***************************************************************************)
\* Option::None for an Option<Uuid>; module ids are positive.
NoModule == 0

\* The descriptors the caller owns and may hand to the graph, by id: two
\* processors with one input and one output each, and an Output.  A
\* descriptor keeps its id and its type for life (AudioModule::new draws
\* the id once).
ModulePool == <<"Filter", "Delay", "Output">>

ModuleIds == DOMAIN ModulePool

\* The descriptors of a second caller, one that plays the graph: a source
\* and two Outputs.  Their ids follow those of ModulePool.
SignalPool == <<"Oscillator", "Output", "Output">>

SignalIds == {Len(ModulePool) + k : k \in DOMAIN SignalPool}

ModuleTypeOf(id) ==
    IF id \in ModuleIds THEN ModulePool[id] ELSE SignalPool[id - Len(ModulePool)]

\* The values a descriptor's level parameter takes here (Volume of an
\* Output, Amplitude of an Oscillator, Cutoff of a Filter, Time of a
\* Delay), in halves of its full range; every other parameter stays at
\* its default, Pan at the centre.
Settings == {1, 2}

\* AudioModule::new leaves the parameters at their defaults.
DefaultSetting == CHOOSE s \in Settings : \A t \in Settings : s <= t

\* An AudioModule as the graph reads it: id, type and parameter values.
AudioModule(id, setting) ==
    [id |-> id, module_type |-> ModuleTypeOf(id), setting |-> setting]

\* AudioModule::new: the (input_count, output_count) table.
input_count(module_type) ==
    CASE module_type = "Oscillator" -> 0
      [] module_type = "Filter"     -> 1
      [] module_type = "Reverb"     -> 1
      [] module_type = "Delay"      -> 1
      [] module_type = "Output"     -> 2
      [] module_type = "Sequencer"  -> 0

output_count(module_type) ==
    CASE module_type = "Oscillator" -> 1
      [] module_type = "Filter"     -> 1
      [] module_type = "Reverb"     -> 1
      [] module_type = "Delay"      -> 1
      [] module_type = "Output"     -> 0
      [] module_type = "Sequencer"  -> 1

\* Largest port counts of the table.  The port indices callers try are
\* those valid on some module type: output 0 is out of range on Output
\* alone, input 1 is in range on Output alone.
MaxOutputCount == 1
MaxInputCount == 2

OutPorts == 0..(MaxOutputCount - 1)
InPorts == 0..(MaxInputCount - 1)

\* struct Connection
Connection(from_module, from_output, to_module, to_input) ==
    [from_module |-> from_module, from_output |-> from_output,
     to_module |-> to_module, to_input |-> to_input]

\* Every Connection value a caller may pass.
ConnInputs ==
    {Connection(f, o, t, i) : f \in ModuleIds, o \in OutPorts,
                              t \in ModuleIds, i \in InPorts}

(***************************************************************************)
(* Results of the fallible operations (the anyhow messages).               *)
(***************************************************************************)
Ok == "Ok"
ErrSourceNotFound == "Source module not found"
ErrDestinationNotFound == "Destination module not found"
ErrCycle == "Connection would create a cycle"

(***************************************************************************)
(* AudioGraph as a value.                                                  *)
(***************************************************************************)
MkGraph(ns, cs, out) == [nodes |-> ns, connections |-> cs, output_node |-> out]

\* AudioGraph::new
new == MkGraph(<<>>, <<>>, NoModule)

Graph == MkGraph(nodes, connections, output_node)

\* HashMap::remove
MapRemove(m, k) == [x \in DOMAIN m \ {k} |-> m[x]]

\* HashMap::insert
MapInsert(m, k, v) == [x \in DOMAIN m \cup {k} |-> IF x = k THEN v ELSE m[x]]


(***************************************************************************)
(* AudioGraph::rebuild_connections                                         *)
(***************************************************************************)
\* First loop: every node's input slots are filled with None (the length
\* is kept) and its output list is cleared.
clear_adjacency(ns) ==
    [id \in DOMAIN ns |->
        [ns[id] EXCEPT
            !.input_connections = [k \in 1..Len(ns[id].input_connections) |-> NoModule],
            !.output_connections = <<>>]]

\* Body of the second loop for one connection.  Port p is index p + 1 of
\* the sequence that models the Vec.
apply_connection(ns, conn) ==
    LET ns1 == IF conn.from_module \in DOMAIN ns
                  /\ conn.from_output < Len(ns[conn.from_module].output_connections)
               THEN [ns EXCEPT ![conn.from_module].output_connections =
                                   Append(@, conn.to_module)]
               ELSE ns
    IN IF conn.to_module \in DOMAIN ns1
          /\ conn.to_input < Len(ns1[conn.to_module].input_connections)
       THEN [ns1 EXCEPT ![conn.to_module].input_connections[conn.to_input + 1] =
                            conn.from_module]
       ELSE ns1

\* Second loop: the connection list in order.
RECURSIVE apply_connections(_, _)
apply_connections(ns, cs) ==
    IF cs = <<>> THEN ns
    ELSE apply_connections(apply_connection(ns, Head(cs)), Tail(cs))

rebuild_connections(g) ==
    [g EXCEPT !.nodes = apply_connections(clear_adjacency(g.nodes), g.connections)]

(***************************************************************************)
(* AudioGraph::would_create_cycle                                          *)
(***************************************************************************)
\* has_path_to with its visited set threaded through the calls: the
\* result is the returned bool and the visited set after the call.
RECURSIVE has_path_to(_, _, _, _)
RECURSIVE has_path_from_outputs(_, _, _, _)
has_path_to(g, from, target, visited) ==
    IF from = target THEN [found |-> TRUE, visited |-> visited]
    ELSE IF from \in visited THEN [found |-> FALSE, visited |-> visited]
    ELSE IF from \in DOMAIN g.nodes
         THEN has_path_from_outputs(g, g.nodes[from].output_connections, target,
                                    visited \cup {from})
         ELSE [found |-> FALSE, visited |-> visited \cup {from}]

\* The `for &output_id in &node.output_connections` loop of has_path_to.
has_path_from_outputs(g, outputs, target, visited) ==
    IF outputs = <<>> THEN [found |-> FALSE, visited |-> visited]
    ELSE LET r == has_path_to(g, Head(outputs), target, visited)
         IN IF r.found THEN r
            ELSE has_path_from_outputs(g, Tail(outputs), target, r.visited)

\* Variant: the search starts at the destination's outputs, without the
\* test of the destination itself against the source.
would_create_cycle_skips_start(g, new_connection) ==
    has_path_from_outputs(
        g,
        IF new_connection.to_module \in DOMAIN g.nodes
        THEN g.nodes[new_connection.to_module].output_connections ELSE <<>>,
        new_connection.from_module,
        {new_connection.to_module}).found

would_create_cycle(g, new_connection) ==
    has_path_to(g, new_connection.to_module, new_connection.from_module, {}).found

(***************************************************************************)
(* The operations of AudioGraph.                                           *)
(***************************************************************************)
\* create_audio_unit: a new unit whose kind comes from the module type
\* and whose coefficients come from the parameter values; every arm
\* returns Ok.  `samples` counts the samples the unit has been ticked for
\* since it was built: what a unit holds inside (phase, filter memory,
\* delay line) is a function of that history, and is empty at 0.
create_audio_unit(module) ==
    [kind |-> module.module_type, setting |-> module.setting, samples |-> 0]

\* Variant: an Output becomes the active output only when there is none.
add_module_keeps_first(g, module) ==
    LET node == [audio_unit |-> create_audio_unit(module),
                 input_connections |->
                     [k \in 1..input_count(module.module_type) |-> NoModule],
                 output_connections |-> <<>>]
    IN [g EXCEPT !.nodes = MapInsert(g.nodes, module.id, node),
                 !.output_node = IF module.module_type = "Output" /\ @ = NoModule
                                 THEN module.id ELSE @]

add_module(g, module) ==
    LET node == [audio_unit |-> create_audio_unit(module),
                 input_connections |->
                     [k \in 1..input_count(module.module_type) |-> NoModule],
                 output_connections |-> <<>>]
    IN [g EXCEPT !.nodes = MapInsert(g.nodes, module.id, node),
                 !.output_node = IF module.module_type = "Output"
                                 THEN module.id ELSE @]

\* Variant: retain tests the source side of a connection alone.
remove_module_source_only(g, module_id) ==
    rebuild_connections(
        [g EXCEPT
            !.connections = SelectSeq(g.connections,
                LAMBDA conn : conn.from_module # module_id),
            !.nodes = MapRemove(g.nodes, module_id),
            !.output_node = IF @ = module_id THEN NoModule ELSE @])

\* Variant: the connection list is cleared instead of filtered.
remove_module_clears_all(g, module_id) ==
    rebuild_connections(
        [g EXCEPT
            !.connections = <<>>,
            !.nodes = MapRemove(g.nodes, module_id),
            !.output_node = IF @ = module_id THEN NoModule ELSE @])

remove_module(g, module_id) ==
    rebuild_connections(
        [g EXCEPT
            !.connections = SelectSeq(g.connections,
                LAMBDA conn : conn.from_module # module_id /\ conn.to_module # module_id),
            !.nodes = MapRemove(g.nodes, module_id),
            !.output_node = IF @ = module_id THEN NoModule ELSE @])

\* Variant: the connection is pushed before the cycle check, and stays
\* when the check fails.
add_connection_stores_before_check(g, connection) ==
    IF connection.from_module \notin DOMAIN g.nodes
    THEN [result |-> ErrSourceNotFound, graph |-> g]
    ELSE IF connection.to_module \notin DOMAIN g.nodes
    THEN [result |-> ErrDestinationNotFound, graph |-> g]
    ELSE LET pushed == rebuild_connections(
                           [g EXCEPT !.connections = Append(@, connection)])
         IN IF would_create_cycle(g, connection)
            THEN [result |-> ErrCycle, graph |-> pushed]
            ELSE [result |-> Ok, graph |-> pushed]

\* The Result of add_connection and the graph it leaves.
add_connection(g, connection) ==
    IF connection.from_module \notin DOMAIN g.nodes
    THEN [result |-> ErrSourceNotFound, graph |-> g]
    ELSE IF connection.to_module \notin DOMAIN g.nodes
    THEN [result |-> ErrDestinationNotFound, graph |-> g]
    ELSE IF would_create_cycle(g, connection)
    THEN [result |-> ErrCycle, graph |-> g]
    ELSE [result |-> Ok,
          graph |-> rebuild_connections(
                        [g EXCEPT !.connections = Append(@, connection)])]

\* Variant: retain compares the two modules and not the ports.
remove_connection_ignores_ports(g, from_module, from_output, to_module, to_input) ==
    rebuild_connections(
        [g EXCEPT !.connections = SelectSeq(g.connections,
            LAMBDA conn : ~(conn.from_module = from_module
                            /\ conn.to_module = to_module))])

remove_connection(g, from_module, from_output, to_module, to_input) ==
    rebuild_connections(
        [g EXCEPT !.connections = SelectSeq(g.connections,
            LAMBDA conn : ~(conn.from_module = from_module
                            /\ conn.from_output = from_output
                            /\ conn.to_module = to_module
                            /\ conn.to_input = to_input))])

\* The returned Vec as the set of its elements (it is filled in the
\* iteration order of the HashMap, and never holds a pair twice).
get_connectable_outputs(g, to_module, to_input) ==
    {<<module_id, output_idx>> \in (DOMAIN g.nodes \ {to_module}) \X OutPorts :
        /\ output_idx < Len(g.nodes[module_id].output_connections)
        /\ ~would_create_cycle(g, Connection(module_id, output_idx, to_module, to_input))}

\* One period of the sine an Oscillator unit produces, sampled at four
\* points and scaled to the integers.
Wave == <<0, 1, 0, -1>>

\* AudioUnit64::tick for the units of create_audio_unit: one frame of
\* output for one frame of input.  An Output is pass() times its gain on
\* each of its two channels (the gains are equal with Pan at the centre);
\* an Oscillator is sine_hz times its amplitude.
tick(unit, input) ==
    [unit |-> [unit EXCEPT !.samples = @ + 1],
     output |->
        CASE unit.kind = "Output" ->
                 <<input[1] * unit.setting, input[2] * unit.setting>>
          [] unit.kind = "Oscillator" ->
                 <<Wave[(unit.samples % Len(Wave)) + 1] * unit.setting>>]

\* update_module: the node, when present, gets a unit made anew from the
\* descriptor; Ok in both cases.
update_module(g, module) ==
    IF module.id \in DOMAIN g.nodes
    THEN [g EXCEPT !.nodes[module.id].audio_unit = create_audio_unit(module)]
    ELSE g

\* The loop of process: every sample is output 0 of one tick of the
\* output node's unit on the input frame [0.0, 0.0].
RECURSIVE fill_buffer(_, _)
fill_buffer(unit, frames) ==
    IF frames = 0
    THEN [unit |-> unit, buffer |-> <<>>]
    ELSE LET t == tick(unit, <<0, 0>>)
             rest == fill_buffer(t.unit, frames - 1)
         IN [unit |-> rest.unit, buffer |-> <<t.output[1]>> \o rest.buffer]

\* Variant: nothing is written when there is no output node.
process_skips_silence(g, output) ==
    IF g.output_node # NoModule
    THEN IF g.output_node \in DOMAIN g.nodes
         THEN LET filled == fill_buffer(g.nodes[g.output_node].audio_unit, Len(output))
              IN [result |-> Ok,
                  graph |-> [g EXCEPT !.nodes[g.output_node].audio_unit = filled.unit],
                  output |-> filled.buffer]
         ELSE [result |-> Ok, graph |-> g, output |-> output]
    ELSE [result |-> Ok, graph |-> g, output |-> output]

\* process: the Result, the graph it leaves and the caller's buffer.
process(g, output) ==
    IF g.output_node # NoModule
    THEN IF g.output_node \in DOMAIN g.nodes
         THEN LET filled == fill_buffer(g.nodes[g.output_node].audio_unit, Len(output))
              IN [result |-> Ok,
                  graph |-> [g EXCEPT !.nodes[g.output_node].audio_unit = filled.unit],
                  output |-> filled.buffer]
         ELSE [result |-> Ok, graph |-> g, output |-> output]
    ELSE [result |-> Ok, graph |-> g, output |-> [i \in DOMAIN output |-> 0]]

(***************************************************************************)
(* AudioEngine (engine.rs): two values shared under one mutex each, the    *)
(* control thread that writes them and the audio callback that reads them. *)
(***************************************************************************)
\* AudioEngine::new: 440.0 Hz, and 0.5 counted in tenths.
InitialFrequency == 440
InitialAmplitude == 5

\* The values the control thread writes (Hz, tenths).
FrequencyValues == {InitialFrequency, 2 * InitialFrequency}
AmplitudeValues == {InitialAmplitude, 2 * InitialAmplitude}

\* The sample rate written into the callback, where PHASE wraps.
PhaseWrap == 44100

\* A local of the callback that has not been assigned yet.
Unread == 0

\* Owners of a Mutex.
Free == "free"
ControlThread == "control"
AudioThread == "audio"

\* (PHASE * frequency * 2 pi / 44100).sin() * amplitude, kept as the
\* three values it is computed from.
Sample(phase, frequency, amplitude) ==
    [phase |-> phase, frequency |-> frequency, amplitude |-> amplitude]

InitEngine ==
    /\ current_frequency = InitialFrequency
    /\ current_amplitude = InitialAmplitude
    /\ frequency_lock = Free
    /\ amplitude_lock = Free
    /\ control = [pc |-> "idle", arg |-> Unread]
    /\ callback = [pc |-> "idle", frequency |-> Unread, amplitude |-> Unread,
                   len |-> 0, data |-> <<>>]
    /\ PHASE = 0
    /\ changed_at = -1

\* update_frequency, first half: lock() returns once the mutex is free.
UpdateFrequencyLock ==
    \E freq \in FrequencyValues :
        /\ control.pc = "idle"
        /\ frequency_lock = Free
        /\ frequency_lock' = ControlThread
        /\ control' = [pc |-> "update_frequency", arg |-> freq]
        /\ UNCHANGED <<current_frequency, current_amplitude, amplitude_lock,
                       callback, PHASE, changed_at, outside_engine>>

\* `changed_at` remembers how many samples of the running block were
\* written when the first write of the block landed (-1: none yet).
NoteChange ==
    changed_at' = IF callback.pc = "fill" /\ changed_at = -1
                  THEN Len(callback.data) ELSE changed_at

\* update_frequency, second half: the store, and the guard is dropped.
UpdateFrequencyStore ==
    /\ control.pc = "update_frequency"
    /\ current_frequency' = control.arg
    /\ frequency_lock' = Free
    /\ control' = [pc |-> "idle", arg |-> Unread]
    /\ NoteChange
    /\ UNCHANGED <<current_amplitude, amplitude_lock, callback, PHASE, outside_engine>>

UpdateAmplitudeLock ==
    \E amp \in AmplitudeValues :
        /\ control.pc = "idle"
        /\ amplitude_lock = Free
        /\ amplitude_lock' = ControlThread
        /\ control' = [pc |-> "update_amplitude", arg |-> amp]
        /\ UNCHANGED <<current_frequency, current_amplitude, frequency_lock,
                       callback, PHASE, changed_at, outside_engine>>

UpdateAmplitudeStore ==
    /\ control.pc = "update_amplitude"
    /\ current_amplitude' = control.arg
    /\ amplitude_lock' = Free
    /\ control' = [pc |-> "idle", arg |-> Unread]
    /\ NoteChange
    /\ UNCHANGED <<current_frequency, frequency_lock, callback, PHASE, outside_engine>>

\* The device calls the closure with a buffer of `frames` samples.
CallbackEnter ==
    \E frames \in 1..BlockFrames :
        /\ callback.pc = "idle"
        /\ PHASE + frames <= MaxPhase
        /\ callback' = [pc |-> "lock_frequency", frequency |-> Unread,
                        amplitude |-> Unread, len |-> frames, data |-> <<>>]
        /\ changed_at' = -1
        /\ UNCHANGED <<current_frequency, current_amplitude, frequency_lock,
                       amplitude_lock, control, PHASE, outside_engine>>

\* freq.lock(): the callback goes on only once the mutex is free.
CallbackLockFrequency ==
    /\ callback.pc = "lock_frequency"
    /\ frequency_lock = Free
    /\ frequency_lock' = AudioThread
    /\ callback' = [callback EXCEPT !.pc = "read_frequency"]
    /\ UNCHANGED <<current_frequency, current_amplitude, amplitude_lock, control,
                   PHASE, changed_at, outside_engine>>

\* let frequency = *guard; the guard is dropped at the end of the statement.
CallbackReadFrequency ==
    /\ callback.pc = "read_frequency"
    /\ callback' = [callback EXCEPT !.pc = "lock_amplitude",
                                    !.frequency = current_frequency]
    /\ frequency_lock' = Free
    /\ UNCHANGED <<current_frequency, current_amplitude, amplitude_lock, control,
                   PHASE, changed_at, outside_engine>>

CallbackLockAmplitude ==
    /\ callback.pc = "lock_amplitude"
    /\ amplitude_lock = Free
    /\ amplitude_lock' = AudioThread
    /\ callback' = [callback EXCEPT !.pc = "read_amplitude"]
    /\ UNCHANGED <<current_frequency, current_amplitude, frequency_lock, control,
                   PHASE, changed_at, outside_engine>>

CallbackReadAmplitude ==
    /\ callback.pc = "read_amplitude"
    /\ callback' = [callback EXCEPT !.pc = "fill",
                                    !.amplitude = current_amplitude]
    /\ amplitude_lock' = Free
    /\ UNCHANGED <<current_frequency, current_amplitude, frequency_lock, control,
                   PHASE, changed_at, outside_engine>>

\* Variant: the sample is computed from the shared values as they are
\* when it is written.
write_sample_reads_shared(cb, phase, shared_frequency, shared_amplitude) ==
    [cb EXCEPT !.data = Append(@, Sample(phase, shared_frequency, shared_amplitude))]

\* One turn of the loop body: the sample is computed from the locals.
write_sample(cb, phase, shared_frequency, shared_amplitude) ==
    [cb EXCEPT !.data = Append(@, Sample(phase, cb.frequency, cb.amplitude))]

CallbackSample ==
    /\ callback.pc = "fill"
    /\ Len(callback.data) < callback.len
    /\ callback' = write_sample(callback, PHASE, current_frequency, current_amplitude)
    /\ PHASE' = IF PHASE + 1 >= PhaseWrap THEN 0 ELSE PHASE + 1
    /\ UNCHANGED <<current_frequency, current_amplitude, frequency_lock,
                   amplitude_lock, control, changed_at, outside_engine>>

\* The loop is over and the closure returns.
CallbackReturn ==
    /\ callback.pc = "fill"
    /\ Len(callback.data) = callback.len
    /\ callback' = [callback EXCEPT !.pc = "idle"]
    /\ UNCHANGED <<current_frequency, current_amplitude, frequency_lock,
                   amplitude_lock, control, PHASE, changed_at, outside_engine>>

NextEngine ==
    \/ UpdateFrequencyLock
    \/ UpdateFrequencyStore
    \/ UpdateAmplitudeLock
    \/ UpdateAmplitudeStore
    \/ CallbackEnter
    \/ CallbackLockFrequency
    \/ CallbackReadFrequency
    \/ CallbackLockAmplitude
    \/ CallbackReadAmplitude
    \/ CallbackSample
    \/ CallbackReturn

(***************************************************************************)
(* StepSequencer (sequencer.rs).  The f64 sample counts are kept exactly,  *)
(* as whole numbers of 1/Unit of a sample; swing, probability and          *)
(* velocity are kept in hundredths.                                        *)
(***************************************************************************)
\* Every step length of the model is a whole number of 1/Unit samples.
Unit == 96

\* Option::None for an event (a SequenceEvent of no step) and for a
\* random draw that was not made.
NoEvent == [step_index |-> -1, note |-> 0, velocity |-> 0, gate_length |-> 0]
NoDraw == -1

\* probability: 1.0, in hundredths.
FullProbability == 100

\* SequenceStep, and SequenceStep::default().
SequenceStep(active, note, velocity, probability) ==
    [active |-> active, note |-> note, velocity |-> velocity,
     probability |-> probability]

DefaultStep == SequenceStep(FALSE, 60, 80, FullProbability)

\* The steps a caller writes with set_step: the default one, one that
\* always triggers and one that triggers on half of the draws.
StepValues ==
    {DefaultStep,
     SequenceStep(TRUE, 60, 80, FullProbability),
     SequenceStep(TRUE, 64, 50, FullProbability \div 2)}

\* Values of rand::random::<f32>(), uniform in [0, 1), in hundredths.
Draws == {0, FullProbability \div 2, FullProbability - 1}

StepResolutions == {"Sixteenth", "Eighth", "Quarter", "Triplet"}

steps_per_beat(step_resolution) ==
    CASE step_resolution = "Sixteenth" -> 4
      [] step_resolution = "Eighth"    -> 2
      [] step_resolution = "Quarter"   -> 1
      [] step_resolution = "Triplet"   -> 3

\* SequenceStep::should_trigger; `draw` is what rand::random returns when
\* it is called.
should_trigger(step, draw) ==
    step.active /\ (step.probability >= FullProbability \/ draw < step.probability)

\* StepSequencer::new
sequencer_new(num_steps, sample_rate) ==
    [steps |-> [i \in 1..num_steps |-> DefaultStep],
     current_step |-> 0,
     is_playing |-> FALSE,
     loop_enabled |-> TRUE,
     swing |-> 0,
     step_resolution |-> "Sixteenth",
     samples_per_step |-> 0,
     sample_counter |-> 0,
     sample_rate |-> sample_rate]

\* set_bpm: sample_rate / (bpm / 60 * steps_per_beat), in 1/Unit samples.
set_bpm(sq, bpm) ==
    [sq EXCEPT !.samples_per_step =
        (sq.sample_rate * 60 * Unit) \div (bpm * steps_per_beat(sq.step_resolution))]

play(sq) == [sq EXCEPT !.is_playing = TRUE]

stop(sq) == [sq EXCEPT !.is_playing = FALSE, !.current_step = 0,
                       !.sample_counter = 0]

pause(sq) == [sq EXCEPT !.is_playing = FALSE]

reset(sq) == [sq EXCEPT !.current_step = 0, !.sample_counter = 0]

set_step(sq, index, step) ==
    IF index < Len(sq.steps) THEN [sq EXCEPT !.steps[index + 1] = step] ELSE sq

set_pattern(sq, pattern) ==
    [sq EXCEPT !.steps = [i \in DOMAIN sq.steps |->
        IF i \in DOMAIN pattern THEN [sq.steps[i] EXCEPT !.active = pattern[i]]
        ELSE sq.steps[i]]]

SequenceEvent(step_index, note, velocity, gate_length) ==
    [step_index |-> step_index, note |-> note, velocity |-> velocity,
     gate_length |-> gate_length]

\* The step length tick compares the counter with: samples_per_step,
\* times 1 + swing * 0.5 on an odd step when swing is positive.
step_length(sq) ==
    IF sq.swing > 0 /\ sq.current_step % 2 = 1
    THEN (sq.samples_per_step * (200 + sq.swing)) \div 200
    ELSE sq.samples_per_step

\* Variant: the step at current_step triggers whether it is active or not.
sequencer_tick_ignores_active(sq, draw) ==
    IF ~sq.is_playing
    THEN [sequencer |-> sq, event |-> NoEvent, boundary |-> FALSE, gate |-> 0]
    ELSE LET counter == sq.sample_counter + Unit
             len == step_length(sq)
         IN IF counter >= len
            THEN LET event ==
                         IF sq.current_step < Len(sq.steps)
                         THEN LET step == sq.steps[sq.current_step + 1]
                              IN IF step.probability >= FullProbability
                                    \/ draw < step.probability
                                 THEN SequenceEvent(sq.current_step, step.note,
                                                    step.velocity, len)
                                 ELSE NoEvent
                         ELSE NoEvent
                     next == sq.current_step + 1
                     past == next >= Len(sq.steps)
                 IN [sequencer |->
                        [sq EXCEPT !.sample_counter = counter - len,
                                   !.current_step =
                                       IF past /\ sq.loop_enabled THEN 0 ELSE next,
                                   !.is_playing =
                                       IF past /\ ~sq.loop_enabled THEN FALSE ELSE @],
                     event |-> event, boundary |-> TRUE, gate |-> len]
            ELSE [sequencer |-> [sq EXCEPT !.sample_counter = counter],
                  event |-> NoEvent, boundary |-> FALSE, gate |-> len]

\* Variant: passing the last step wraps to step 0 whatever loop_enabled is.
sequencer_tick_always_wraps(sq, draw) ==
    IF ~sq.is_playing
    THEN [sequencer |-> sq, event |-> NoEvent, boundary |-> FALSE, gate |-> 0]
    ELSE LET counter == sq.sample_counter + Unit
             len == step_length(sq)
         IN IF counter >= len
            THEN LET event ==
                         IF sq.current_step < Len(sq.steps)
                         THEN LET step == sq.steps[sq.current_step + 1]
                              IN IF should_trigger(step, draw)
                                 THEN SequenceEvent(sq.current_step, step.note,
                                                    step.velocity, len)
                                 ELSE NoEvent
                         ELSE NoEvent
                     next == sq.current_step + 1
                     past == next >= Len(sq.steps)
                 IN [sequencer |->
                        [sq EXCEPT !.sample_counter = counter - len,
                                   !.current_step = IF past THEN 0 ELSE next],
                     event |-> event, boundary |-> TRUE, gate |-> len]
            ELSE [sequencer |-> [sq EXCEPT !.sample_counter = counter],
                  event |-> NoEvent, boundary |-> FALSE, gate |-> len]

\* Variant: the counter restarts from 0 at a step boundary.
sequencer_tick_drops_remainder(sq, draw) ==
    IF ~sq.is_playing
    THEN [sequencer |-> sq, event |-> NoEvent, boundary |-> FALSE, gate |-> 0]
    ELSE LET counter == sq.sample_counter + Unit
             len == step_length(sq)
         IN IF counter >= len
            THEN LET event ==
                         IF sq.current_step < Len(sq.steps)
                         THEN LET step == sq.steps[sq.current_step + 1]
                              IN IF should_trigger(step, draw)
                                 THEN SequenceEvent(sq.current_step, step.note,
                                                    step.velocity, len)
                                 ELSE NoEvent
                         ELSE NoEvent
                     next == sq.current_step + 1
                     past == next >= Len(sq.steps)
                 IN [sequencer |->
                        [sq EXCEPT !.sample_counter = 0,
                                   !.current_step =
                                       IF past /\ sq.loop_enabled THEN 0 ELSE next,
                                   !.is_playing =
                                       IF past /\ ~sq.loop_enabled THEN FALSE ELSE @],
                     event |-> event, boundary |-> TRUE, gate |-> len]
            ELSE [sequencer |-> [sq EXCEPT !.sample_counter = counter],
                  event |-> NoEvent, boundary |-> FALSE, gate |-> len]

\* StepSequencer::tick: the sequencer it leaves, the Option it returns,
\* whether the tick was a step boundary, and the step length it used.
sequencer_tick(sq, draw) ==
    IF ~sq.is_playing
    THEN [sequencer |-> sq, event |-> NoEvent, boundary |-> FALSE, gate |-> 0]
    ELSE LET counter == sq.sample_counter + Unit
             len == step_length(sq)
         IN IF counter >= len
            THEN LET event ==
                         IF sq.current_step < Len(sq.steps)
                         THEN LET step == sq.steps[sq.current_step + 1]
                              IN IF should_trigger(step, draw)
                                 THEN SequenceEvent(sq.current_step, step.note,
                                                    step.velocity, len)
                                 ELSE NoEvent
                         ELSE NoEvent
                     next == sq.current_step + 1
                     past == next >= Len(sq.steps)
                 IN [sequencer |->
                        [sq EXCEPT !.sample_counter = counter - len,
                                   !.current_step =
                                       IF past /\ sq.loop_enabled THEN 0 ELSE next,
                                   !.is_playing =
                                       IF past /\ ~sq.loop_enabled THEN FALSE ELSE @],
                     event |-> event, boundary |-> TRUE, gate |-> len]
            ELSE [sequencer |-> [sq EXCEPT !.sample_counter = counter],
                  event |-> NoEvent, boundary |-> FALSE, gate |-> len]

(***************************************************************************)
(* State machine: a caller that edits a sequencer and ticks it.            *)
(***************************************************************************)
\* The sample rate, in Hz, handed to StepSequencer::new for the sequencer
\* that is edited: at this rate the step lengths of BpmValues are 1, 2
\* and 4 samples, and 1.25, 2.5 and 5 samples on a swung step.
SampleRate == 8

\* The tempos handed to set_bpm, and the tempo before any was.
BpmValues == {60, 120}
NoTempo == 0

\* The resolutions written to the step_resolution field while editing.
EditResolutions == {"Sixteenth", "Eighth"}

\* Values written to the swing field, in hundredths.
SwingValues == {0, 50}

\* `seq_last` for a call of tick, and for every other call.
TickCall(event, boundary, gate, draw) ==
    [op |-> "tick", event |-> event, boundary |-> boundary, gate |-> gate,
     draw |-> draw]

EditCall == [op |-> "edit", event |-> NoEvent, boundary |-> FALSE, gate |-> 0,
             draw |-> NoDraw]

\* `run` before the first tick: ticks made, boundaries passed, events
\* returned, the tick of the latest boundary and its distance from the
\* boundary before it.
NoRun == [ticks |-> 0, boundaries |-> 0, events |-> 0, at |-> 0, gap |-> 0]

InitSeq ==
    /\ sequencer = sequencer_new(NumSteps, SampleRate)
    /\ seq_last = EditCall
    /\ tempo = NoTempo
    /\ run = NoRun

\* Any call but tick and set_bpm: the sequencer becomes sq.
Edit(sq) ==
    /\ sequencer' = sq
    /\ seq_last' = EditCall
    /\ UNCHANGED <<tempo, run, outside_seq>>

SetBpm ==
    \E bpm \in BpmValues :
        /\ sequencer' = set_bpm(sequencer, bpm)
        /\ tempo' = bpm
        /\ seq_last' = EditCall
        /\ UNCHANGED <<run, outside_seq>>

\* step_resolution, swing and loop_enabled are public fields, written
\* directly (as the presets do).
SetResolution ==
    \E step_resolution \in EditResolutions :
        Edit([sequencer EXCEPT !.step_resolution = step_resolution])

SetSwing ==
    \E swing \in SwingValues : Edit([sequencer EXCEPT !.swing = swing])

SetLoopEnabled ==
    \E loop_enabled \in BOOLEAN :
        Edit([sequencer EXCEPT !.loop_enabled = loop_enabled])

Play == Edit(play(sequencer))

Stop == Edit(stop(sequencer))

Pause == Edit(pause(sequencer))

Reset == Edit(reset(sequencer))

SetStep ==
    \E index \in 0..NumSteps, step \in StepValues :
        Edit(set_step(sequencer, index, step))

\* tick calls rand::random only for an active step of probability below
\* 1 at a step boundary.
Rolls(sq) ==
    /\ sq.is_playing
    /\ sq.sample_counter + Unit >= step_length(sq)
    /\ sq.current_step < Len(sq.steps)
    /\ sq.steps[sq.current_step + 1].active
    /\ sq.steps[sq.current_step + 1].probability < FullProbability

\* The counter of a sequencer whose step length is below one sample, and
\* the step index of one that is played again past its last step, grow
\* without limit; the model stops ticking at one second's worth of
\* counter and at one step past the end.
Tick ==
    \E draw \in Draws :
        LET r == sequencer_tick(sequencer, draw)
        IN /\ r.sequencer.sample_counter <= SampleRate * Unit
           /\ r.sequencer.current_step <= Len(sequencer.steps) + 1
           /\ sequencer' = r.sequencer
           /\ seq_last' = TickCall(r.event, r.boundary, r.gate,
                                   IF Rolls(sequencer) THEN draw ELSE NoDraw)
           /\ UNCHANGED <<tempo, run, outside_seq>>

NextSeq ==
    \/ SetBpm
    \/ SetResolution
    \/ SetSwing
    \/ SetLoopEnabled
    \/ Play
    \/ Stop
    \/ Pause
    \/ Reset
    \/ SetStep
    \/ Tick

\* StepSequencer::resize: Vec::resize cuts the steps or fills up with
\* default steps.
resize(sq, new_size) ==
    LET resized == [sq EXCEPT !.steps =
                       [i \in 1..new_size |->
                           IF i <= Len(sq.steps) THEN sq.steps[i] ELSE DefaultStep]]
    IN IF sq.current_step >= new_size /\ new_size > 0
       THEN [resized EXCEPT !.current_step = 0]
       ELSE resized

Resize ==
    \E new_size \in 0..(NumSteps + 1) : Edit(resize(sequencer, new_size))

\* A sequencer that is played, stopped and resized, its steps as built.
NextSeqSize ==
    \/ SetBpm
    \/ SetLoopEnabled
    \/ Play
    \/ Stop
    \/ Pause
    \/ Reset
    \/ Resize
    \/ Tick

(***************************************************************************)
(* State machine: a sequencer set up once and ticked for two seconds.      *)
(***************************************************************************)
\* SequencerPresets::drum_machine: 16 steps at 44100 Hz and 120 BPM.
PresetSteps == 16
PresetRate == 44100
PresetBpm == 120

\* DrumPatterns::hihat_16th
hihat_16th == [i \in 1..PresetSteps |-> TRUE]

\* The runs that are timed: the preset's, and every tempo and resolution
\* at two small rates (step lengths from 1 to 10 samples, with remainders
\* of a quarter, a third, a half and two thirds of a sample).
RunRates == {SampleRate, SampleRate + 2}

RunConfigs ==
    {[sample_rate |-> PresetRate, bpm |-> PresetBpm, step_resolution |-> "Sixteenth"]}
    \cup {[sample_rate |-> rate, bpm |-> bpm, step_resolution |-> res] :
              rate \in RunRates, bpm \in BpmValues, res \in StepResolutions}

\* new, the resolution, set_bpm, set_pattern and play, in this order.
InitSeqRun ==
    /\ \E cfg \in RunConfigs :
          /\ sequencer =
                play(set_pattern(
                    set_bpm([sequencer_new(PresetSteps, cfg.sample_rate)
                                EXCEPT !.step_resolution = cfg.step_resolution],
                            cfg.bpm),
                    hihat_16th))
          /\ tempo = cfg.bpm
    /\ seq_last = EditCall
    /\ run = NoRun

RunTick ==
    \E draw \in Draws :
        LET r == sequencer_tick(sequencer, draw)
            now == run.ticks + 1
        IN /\ run.ticks < 2 * sequencer.sample_rate
           /\ sequencer' = r.sequencer
           /\ seq_last' = TickCall(r.event, r.boundary, r.gate,
                                   IF Rolls(sequencer) THEN draw ELSE NoDraw)
           /\ run' = [ticks |-> now,
                      boundaries |-> run.boundaries + (IF r.boundary THEN 1 ELSE 0),
                      events |-> run.events + (IF r.event # NoEvent THEN 1 ELSE 0),
                      at |-> IF r.boundary THEN now ELSE run.at,
                      gap |-> IF r.boundary THEN now - run.at ELSE run.gap]
           /\ UNCHANGED <<tempo, outside_seq>>

NextSeqRun == RunTick

(***************************************************************************)
(* ModuleParameter (types.rs).  An f32 value is kept as a whole number of  *)
(* 1/Scale; a delta and a normalized value are kept in hundredths.  Every  *)
(* range of the tables is a whole number of hundredths of itself.          *)
(***************************************************************************)
Scale == 10000

\* ModuleParameter::new; the arguments are in units of 1/Scale.
ModuleParameter(name, value, min, max) ==
    [name |-> name, value |-> value, min |-> min, max |-> max,
     step |-> (max - min) \div 100]

\* The parameters AudioModule::new builds, type by type.
oscillator_params ==
    <<ModuleParameter("Frequency", 440 * Scale, 20 * Scale, 20000 * Scale),
      ModuleParameter("Amplitude", Scale \div 2, 0, Scale),
      ModuleParameter("Waveform", 0, 0, 3 * Scale)>>

filter_params ==
    <<ModuleParameter("Cutoff", 1000 * Scale, 20 * Scale, 20000 * Scale),
      ModuleParameter("Resonance", Scale \div 2, 0, Scale),
      ModuleParameter("Type", 0, 0, 2 * Scale)>>

reverb_params ==
    <<ModuleParameter("Room Size", Scale \div 2, 0, Scale),
      ModuleParameter("Damping", Scale \div 2, 0, Scale),
      ModuleParameter("Wet", (3 * Scale) \div 10, 0, Scale)>>

delay_params ==
    <<ModuleParameter("Time", Scale \div 4, Scale \div 100, 2 * Scale),
      ModuleParameter("Feedback", (3 * Scale) \div 10, 0, (95 * Scale) \div 100),
      ModuleParameter("Wet", (3 * Scale) \div 10, 0, Scale)>>

output_params ==
    <<ModuleParameter("Volume", (7 * Scale) \div 10, 0, Scale),
      ModuleParameter("Pan", Scale \div 2, 0, Scale)>>

sequencer_params ==
    <<ModuleParameter("BPM", 120 * Scale, 60 * Scale, 200 * Scale),
      ModuleParameter("Steps", 16 * Scale, 4 * Scale, 32 * Scale),
      ModuleParameter("Gate", Scale \div 2, Scale \div 10, Scale)>>

parameters_of(module_type) ==
    CASE module_type = "Oscillator" -> oscillator_params
      [] module_type = "Filter"     -> filter_params
      [] module_type = "Reverb"     -> reverb_params
      [] module_type = "Delay"      -> delay_params
      [] module_type = "Output"     -> output_params
      [] module_type = "Sequencer"  -> sequencer_params

ModuleTypes == {"Oscillator", "Filter", "Reverb", "Delay", "Output", "Sequencer"}

\* f32::clamp for min <= max.
clamp(x, min, max) == IF x < min THEN min ELSE IF x > max THEN max ELSE x

\* Variant: the sum is stored as it is.
adjust_without_clamp(p, delta) ==
    [p EXCEPT !.value = p.value + delta * ((p.max - p.min) \div 100)]

\* ModuleParameter::adjust
adjust(p, delta) ==
    [p EXCEPT !.value =
        clamp(p.value + delta * ((p.max - p.min) \div 100), p.min, p.max)]

\* ModuleParameter::normalized, in hundredths.
normalized(p) == (p.value - p.min) \div ((p.max - p.min) \div 100)

\* The deltas of the parameter editor (fine and coarse, both ways), and
\* two that span more than any range.
Deltas == {-200, -10, -1, 1, 10, 200}

\* No parameter has been built yet.
NoParameter == [name |-> "None", value |-> 0, min |-> 0, max |-> 0, step |-> 0]

InitParam == param = NoParameter

NewParameter ==
    \E module_type \in ModuleTypes :
        \E i \in DOMAIN parameters_of(module_type) :
            /\ param' = parameters_of(module_type)[i]
            /\ Rest("param")

Adjust ==
    \E delta \in Deltas :
        /\ param # NoParameter
        /\ param' = adjust(param, delta)
        /\ Rest("param")

NextParam ==
    \/ NewParameter
    \/ Adjust

(***************************************************************************)
(* AudioModule with its parameters and the typed setters of                *)
(* modules/{oscillator,filter,effects,output,sequencer}.rs.                *)
(***************************************************************************)
\* AudioModule::new, with the fields the setters and the output read.
audio_module_new(module_type) ==
    [module_type |-> module_type,
     parameters |-> parameters_of(module_type),
     enabled |-> TRUE]

\* The positions get_parameter_mut searches: the parameters of that name.
parameter_positions(m, name) ==
    {i \in DOMAIN m.parameters : m.parameters[i].name = name}

\* AudioModule::get_parameter_mut: the first parameter of that name.
get_parameter_mut(m, name) ==
    CHOOSE i \in parameter_positions(m, name) :
        \A j \in parameter_positions(m, name) : i <= j

\* AudioModule::get_parameter_value: 0.0 when there is none.
get_parameter_value(m, name) ==
    IF parameter_positions(m, name) = {} THEN 0
    ELSE m.parameters[get_parameter_mut(m, name)].value

\* AudioModule::get_parameter: the parameter of that name, if any.
get_parameter(m, name) ==
    IF parameter_positions(m, name) = {} THEN NoParameter
    ELSE m.parameters[get_parameter_mut(m, name)]

\* `if let Some(param) = self.get_parameter_mut(name) { param.value = .. }`
set_value(m, name, value) ==
    IF parameter_positions(m, name) = {} THEN m
    ELSE [m EXCEPT !.parameters[get_parameter_mut(m, name)].value = value]

set_frequency(m, frequency) ==
    set_value(m, "Frequency",
              clamp(frequency, get_parameter(m, "Frequency").min,
                    get_parameter(m, "Frequency").max))

\* OscillatorWaveform as i32
OscillatorWaveform == [Sine |-> 0, Sawtooth |-> 1, Square |-> 2, Triangle |-> 3]

set_waveform(m, waveform) ==
    set_value(m, "Waveform", OscillatorWaveform[waveform] * Scale)

set_amplitude(m, amplitude) ==
    set_value(m, "Amplitude", clamp(amplitude, 0, Scale))

set_cutoff(m, cutoff) ==
    set_value(m, "Cutoff",
              clamp(cutoff, get_parameter(m, "Cutoff").min,
                    get_parameter(m, "Cutoff").max))

set_resonance(m, resonance) ==
    set_value(m, "Resonance", clamp(resonance, 0, Scale))

\* FilterType as i32
FilterType ==
    [Lowpass |-> 0, Highpass |-> 1, Bandpass |-> 2, Notch |-> 3, Allpass |-> 4]

set_filter_type(m, filter_type) ==
    set_value(m, "Type", FilterType[filter_type] * Scale)

set_room_size(m, room_size) ==
    set_value(m, "Room Size", clamp(room_size, 0, Scale))

set_damping(m, damping) ==
    set_value(m, "Damping", clamp(damping, 0, Scale))

set_wet_level(m, wet) ==
    set_value(m, "Wet", clamp(wet, 0, Scale))

set_delay_time(m, time) ==
    set_value(m, "Time",
              clamp(time, get_parameter(m, "Time").min,
                    get_parameter(m, "Time").max))

set_feedback(m, feedback) ==
    set_value(m, "Feedback", clamp(feedback, 0, (95 * Scale) \div 100))

set_volume(m, volume) ==
    set_value(m, "Volume", clamp(volume, 0, Scale))

set_pan(m, pan) ==
    set_value(m, "Pan", clamp(pan, 0, Scale))

module_set_bpm(m, bpm) ==
    set_value(m, "BPM",
              clamp(bpm, get_parameter(m, "BPM").min,
                    get_parameter(m, "BPM").max))

set_steps(m, steps) ==
    set_value(m, "Steps",
              clamp(steps, get_parameter(m, "Steps").min,
                    get_parameter(m, "Steps").max))

set_gate(m, gate) ==
    set_value(m, "Gate", clamp(gate, Scale \div 10, Scale))

\* AudioModule::mute, unmute, toggle_mute
mute(m) == [m EXCEPT !.enabled = FALSE]
unmute(m) == [m EXCEPT !.enabled = TRUE]
toggle_mute(m) == [m EXCEPT !.enabled = ~m.enabled]

\* f32::sqrt of a value in [0, 1]: hundredths from units of 1/Scale.
sqrt(x) == CHOOSE r \in 0..100 : r * r <= x /\ x < (r + 1) * (r + 1)

\* AudioModule::get_stereo_gains, in units of 1/(100 * Scale).
get_stereo_gains(m) ==
    IF ~m.enabled THEN <<0, 0>>
    ELSE LET volume == get_parameter_value(m, "Volume")
             pan == get_parameter_value(m, "Pan")
         IN <<volume * sqrt(Scale - pan), volume * sqrt(pan)>>

process_mono_to_stereo(m, input) ==
    <<input * get_stereo_gains(m)[1], input * get_stereo_gains(m)[2]>>

\* AudioModule::process_stereo, in units of 1/Scale.
process_stereo(m, left, right) ==
    IF ~m.enabled THEN <<0, 0>>
    ELSE <<left * get_parameter_value(m, "Volume"),
           right * get_parameter_value(m, "Volume")>>

\* The Output arm of AudioGraph::create_audio_unit: the two gains of
\* (pass() * volume * (1.0 - pan)) | (pass() * volume * pan), in units of
\* 1/(Scale * Scale).
create_output_unit(m) ==
    LET volume == get_parameter_value(m, "Volume")
        pan == get_parameter_value(m, "Pan")
    IN [left_gain |-> volume * (Scale - pan), right_gain |-> volume * pan]

\* One frame through that unit: each channel through its own gain.
output_unit_tick(unit, left, right) ==
    <<left * unit.left_gain, right * unit.right_gain>>

\* The samples an output is given.
OutputSamples == {-1, 1}

\* FilterPresets: the cutoff (Hz), the resonance (hundredths) and the type
\* each factory sets on a new filter.
FilterPresets ==
    [bass_lowpass   |-> [cutoff |-> 500, resonance |-> 30, filter_type |-> "Lowpass"],
     high_shelf     |-> [cutoff |-> 200, resonance |-> 10, filter_type |-> "Highpass"],
     synth_lowpass  |-> [cutoff |-> 1000, resonance |-> 70, filter_type |-> "Lowpass"],
     vocal_bandpass |-> [cutoff |-> 800, resonance |-> 50, filter_type |-> "Bandpass"],
     notch_60hz     |-> [cutoff |-> 60, resonance |-> 80, filter_type |-> "Notch"],
     telephone      |-> [cutoff |-> 3000, resonance |-> 20, filter_type |-> "Bandpass"],
     radio          |-> [cutoff |-> 4000, resonance |-> 40, filter_type |-> "Bandpass"]]

filter_preset(preset) ==
    set_filter_type(
        set_resonance(
            set_cutoff(audio_module_new("Filter"), preset.cutoff * Scale),
            preset.resonance * (Scale \div 100)),
        preset.filter_type)

\* The values a caller asks for: below every range, inside the unit range,
\* inside the wide ranges, above every range.
Requests == {-5 * Scale, Scale \div 2, 100 * Scale, 30000 * Scale}

\* No module has been built yet.
NoAudioModule == [module_type |-> "None", parameters |-> <<>>, enabled |-> TRUE]

InitModule == audio_module = NoAudioModule

NewModule ==
    \E module_type \in ModuleTypes :
        /\ audio_module' = audio_module_new(module_type)
        /\ Rest("module")

ApplyFilterPreset ==
    \E name \in DOMAIN FilterPresets :
        /\ audio_module' = filter_preset(FilterPresets[name])
        /\ Rest("module")

\* A setter that takes a number.
SetNumber ==
    \E x \in Requests :
        /\ audio_module # NoAudioModule
        /\ audio_module' \in
             {set_frequency(audio_module, x), set_amplitude(audio_module, x),
              set_cutoff(audio_module, x), set_resonance(audio_module, x),
              set_room_size(audio_module, x), set_damping(audio_module, x),
              set_wet_level(audio_module, x), set_delay_time(audio_module, x),
              set_feedback(audio_module, x), set_volume(audio_module, x),
              set_pan(audio_module, x), module_set_bpm(audio_module, x),
              set_steps(audio_module, x), set_gate(audio_module, x)}
        /\ Rest("module")

SetWaveform ==
    \E waveform \in DOMAIN OscillatorWaveform :
        /\ audio_module # NoAudioModule
        /\ audio_module' = set_waveform(audio_module, waveform)
        /\ Rest("module")

SetFilterType ==
    \E filter_type \in DOMAIN FilterType :
        /\ audio_module # NoAudioModule
        /\ audio_module' = set_filter_type(audio_module, filter_type)
        /\ Rest("module")

Mute ==
    /\ audio_module # NoAudioModule
    /\ audio_module' = mute(audio_module)
    /\ Rest("module")

Unmute ==
    /\ audio_module # NoAudioModule
    /\ audio_module' = unmute(audio_module)
    /\ Rest("module")

ToggleMute ==
    /\ audio_module # NoAudioModule
    /\ audio_module' = toggle_mute(audio_module)
    /\ Rest("module")

NextModule ==
    \/ NewModule
    \/ Mute
    \/ Unmute
    \/ ToggleMute
    \/ ApplyFilterPreset
    \/ SetNumber
    \/ SetWaveform
    \/ SetFilterType

(***************************************************************************)
(* ADSREnvelope (utils/math.rs).  A level is a whole number of             *)
(* 1/LevelUnit, a time a whole number of 1/TimeUnit second.                *)
(***************************************************************************)
LevelUnit == 120
TimeUnit == 10

\* ADSREnvelope::new
adsr_new(attack, decay, sustain, release, sample_rate) ==
    [attack_time |-> attack, decay_time |-> decay,
     sustain_level |-> clamp(sustain, 0, LevelUnit),
     release_time |-> release,
     state |-> "Idle", current_level |-> 0,
     sample_rate |-> sample_rate, samples_in_state |-> 0]

\* (time * samples_per_second) as u64
samples_of(time, sample_rate) == (time * sample_rate) \div TimeUnit

note_on(env) == [env EXCEPT !.state = "Attack", !.samples_in_state = 0]

note_off(env) == [env EXCEPT !.state = "Release", !.samples_in_state = 0]

\* Entering the next state inside tick, at the given level.
enter(env, state, level) ==
    [env EXCEPT !.current_level = level, !.state = state,
                !.samples_in_state = 0]

\* The match of ADSREnvelope::tick, before the count is advanced.
adsr_match(env) ==
    LET attack_samples == samples_of(env.attack_time, env.sample_rate)
        decay_samples == samples_of(env.decay_time, env.sample_rate)
        release_samples == samples_of(env.release_time, env.sample_rate)
        release_start_level ==
            IF env.state = "Release" /\ env.samples_in_state = 0
            THEN env.current_level
            ELSE env.sustain_level
    IN CASE env.state = "Idle" -> [env EXCEPT !.current_level = 0]
         [] env.state = "Attack" ->
              IF attack_samples = 0 \/ env.samples_in_state >= attack_samples
              THEN enter(env, "Decay", LevelUnit)
              ELSE [env EXCEPT !.current_level =
                       (env.samples_in_state * LevelUnit) \div attack_samples]
         [] env.state = "Decay" ->
              IF decay_samples = 0 \/ env.samples_in_state >= decay_samples
              THEN enter(env, "Sustain", env.sustain_level)
              ELSE [env EXCEPT !.current_level =
                       LevelUnit - (env.samples_in_state
                                    * (LevelUnit - env.sustain_level))
                                   \div decay_samples]
         [] env.state = "Sustain" ->
              [env EXCEPT !.current_level = env.sustain_level]
         [] env.state = "Release" ->
              IF release_samples = 0 \/ env.samples_in_state >= release_samples
              THEN enter(env, "Idle", 0)
              ELSE [env EXCEPT !.current_level =
                       (release_start_level
                        * (release_samples - env.samples_in_state))
                       \div release_samples]

\* Variant: the count of samples is not advanced.
adsr_tick_holds_count(env) == adsr_match(env)

\* ADSREnvelope::tick; the level returned is current_level of the result.
adsr_tick(env) ==
    LET matched == adsr_match(env)
    IN [matched EXCEPT !.samples_in_state = matched.samples_in_state + 1]

\* The envelopes of the model: 5 samples a second, times of 0, 0.3 and
\* 0.6 s (0, 1 and 3 whole samples), sustain levels 0, 0.5 and 1.
EnvRate == 5
EnvTimes == {0, 3, 6}
SustainLevels == {0, LevelUnit \div 2, LevelUnit}

\* No envelope has been built yet.
NoEnvelope ==
    [attack_time |-> 0, decay_time |-> 0, sustain_level |-> 0,
     release_time |-> 0, state |-> "None", current_level |-> 0,
     sample_rate |-> 0, samples_in_state |-> 0]

\* The last call: its name, the state and the level it found, the number
\* of ticks since the last note_on or note_off, and the state and the
\* level that the last note_off found.
EnvCall(op, from, before, ticks, released_from, level_at_off) ==
    [op |-> op, from |-> from, before |-> before, ticks |-> ticks,
     released_from |-> released_from, level_at_off |-> level_at_off]

InitEnvelope ==
    /\ envelope = NoEnvelope
    /\ env_last = EnvCall("none", "None", 0, 0, "None", 0)

NewEnvelope ==
    \E attack \in EnvTimes, decay \in EnvTimes,
       sustain \in SustainLevels, release \in EnvTimes :
        /\ envelope' = adsr_new(attack, decay, sustain, release, EnvRate)
        /\ env_last' = EnvCall("new", envelope.state, envelope.current_level,
                           0, "None", 0)
        /\ Rest("envelope")

NoteOn ==
    /\ envelope # NoEnvelope
    /\ envelope' = note_on(envelope)
    /\ env_last' = EnvCall("note_on", envelope.state, envelope.current_level,
                           0, "None", 0)
    /\ Rest("envelope")

NoteOff ==
    /\ envelope # NoEnvelope
    /\ envelope' = note_off(envelope)
    /\ env_last' = EnvCall("note_off", envelope.state, envelope.current_level,
                           0, envelope.state, envelope.current_level)
    /\ Rest("envelope")

EnvTick ==
    /\ envelope # NoEnvelope
    /\ envelope.samples_in_state <= MaxHeld
    /\ envelope' = adsr_tick(envelope)
    /\ env_last' = EnvCall("tick", envelope.state, envelope.current_level,
                           IF env_last.ticks <= 2 * MaxHeld
                           THEN env_last.ticks + 1 ELSE env_last.ticks,
                           env_last.released_from, env_last.level_at_off)
    /\ Rest("envelope")

NextEnvelope ==
    \/ NewEnvelope
    \/ NoteOn
    \/ NoteOff
    \/ EnvTick

(***************************************************************************)
(* SimpleDelay (audio/nodes.rs).  feedback and wet are in hundredths; the  *)
(* buffer is indexed from 1 where the code indexes from 0.                 *)
(***************************************************************************)
Max(a, b) == IF a >= b THEN a ELSE b

\* SimpleDelay::new
simple_delay_new(delay_time, feedback, wet, sample_rate) ==
    LET delay_samples == samples_of(delay_time, sample_rate)
        buffer_size == Max(delay_samples, 1)
    IN [buffer |-> [i \in 1..buffer_size |-> 0],
        write_pos |-> 0,
        delay_samples |-> delay_samples,
        feedback |-> feedback,
        wet |-> wet]

\* The read position of SimpleDelay::tick.
read_pos(d) ==
    IF d.write_pos >= d.delay_samples
    THEN d.write_pos - d.delay_samples
    ELSE Len(d.buffer) + d.write_pos - d.delay_samples

\* SimpleDelay::tick: the delay after the call and the sample returned.
simple_delay_tick(d, input_sample) ==
    LET delayed_sample == d.buffer[read_pos(d) + 1]
    IN [delay |-> [d EXCEPT
                     !.buffer[d.write_pos + 1] =
                         input_sample + (delayed_sample * d.feedback) \div 100,
                     !.write_pos = (d.write_pos + 1) % Len(d.buffer)],
        output |-> (input_sample * (100 - d.wet) + delayed_sample * d.wet)
                   \div 100]

\* SimpleDelay::reset
simple_delay_reset(d) ==
    [d EXCEPT !.buffer = [i \in DOMAIN d.buffer |-> 0], !.write_pos = 0]

\* The delays of the model: 5 samples a second, delay times of 0 to
\* 0.2 * MaxDelay s in tenths, feedback 0 or 0.5, wet 1 or 0.5, and inputs
\* that are not 0.
DelayRate == 5
DelayTimes == 0..(2 * MaxDelay + 1)
Feedbacks == {0, 50}
Wets == {100, 50}
InputSamples == {100, 200}

\* No delay has been built yet.
NoDelay ==
    [buffer |-> <<>>, write_pos |-> 0, delay_samples |-> 0,
     feedback |-> 0, wet |-> 0]

\* The inputs given since the delay was built or reset, and the sample the
\* last tick returned.
InitDelay ==
    /\ simple_delay = NoDelay
    /\ delay_last = [inputs |-> <<>>, output |-> 0]

NewDelay ==
    \E delay_time \in DelayTimes, feedback \in Feedbacks, wet \in Wets :
        /\ simple_delay' = simple_delay_new(delay_time, feedback, wet, DelayRate)
        /\ delay_last' = [inputs |-> <<>>, output |-> 0]
        /\ Rest("delay")

DelayTick ==
    \E input_sample \in InputSamples :
        LET r == simple_delay_tick(simple_delay, input_sample)
        IN /\ simple_delay # NoDelay
           /\ Len(delay_last.inputs) < MaxDelayTicks
           /\ simple_delay' = r.delay
           /\ delay_last' = [inputs |-> Append(delay_last.inputs, input_sample),
                             output |-> r.output]
           /\ Rest("delay")

DelayReset ==
    /\ simple_delay # NoDelay
    /\ simple_delay' = simple_delay_reset(simple_delay)
    /\ delay_last' = [inputs |-> <<>>, output |-> 0]
    /\ Rest("delay")

NextDelay ==
    \/ NewDelay
    \/ DelayTick
    \/ DelayReset

(***************************************************************************)
(* MultiOscillator (audio/nodes.rs).  A phase is a whole number of 1/Turn  *)
(* of a turn (TAU is Turn), a sample a whole number of thousandths.        *)
(***************************************************************************)
Turn == 8

\* f64::sin at the eighths of a turn, in thousandths; sin is periodic.
SineTable == <<0, 707, 1000, 707, 0, -707, -1000, -707>>
sin(phase) == SineTable[(phase % Turn) + 1]

\* MultiOscillator::new
multi_oscillator_new(frequency, waveform, sample_rate) ==
    [frequency |-> frequency, waveform |-> waveform, phase |-> 0,
     sample_rate |-> sample_rate]

osc_set_frequency(osc, freq) == [osc EXCEPT !.frequency = freq]

osc_set_waveform(osc, waveform) == [osc EXCEPT !.waveform = waveform]

\* The phase MultiOscillator::tick computes its output at.
advance(osc) ==
    LET phase_increment == (osc.frequency * Turn) \div osc.sample_rate
        phase == osc.phase + phase_increment
    IN IF phase >= Turn THEN phase - Turn ELSE phase

\* The output of MultiOscillator::tick at a phase.
waveform_at(waveform, phase) ==
    CASE waveform = 0 -> sin(phase)
      [] waveform = 1 -> (2000 * phase) \div Turn - 1000
      [] waveform = 2 -> IF 2 * phase < Turn THEN 1000 ELSE -1000
      [] waveform = 3 -> IF 2 * phase < Turn
                         THEN (4000 * phase) \div Turn - 1000
                         ELSE 3000 - (4000 * phase) \div Turn
      [] OTHER -> sin(phase)

\* MultiOscillator::tick: the oscillator after the call and the sample.
multi_oscillator_tick(osc) ==
    [oscillator |-> [osc EXCEPT !.phase = advance(osc)],
     output |-> waveform_at(osc.waveform, advance(osc))]

\* MultiOscillator::reset
multi_oscillator_reset(osc) == [osc EXCEPT !.phase = 0]

\* The oscillators of the model: Turn samples a second, so that a
\* frequency of k Hz advances the phase by k eighths of a turn.
OscRate == Turn
OscFrequencies == {1, 2, 3}
OscWaveforms == {0, 1, 2, 3, 7}

\* No oscillator has been built yet.
NoOscillator ==
    [frequency |-> 0, waveform |-> 0, phase |-> 0, sample_rate |-> 0]

\* The samples returned since the oscillator was built or reset, whether a
\* setter was called since then, and the last sample.
OscCall(n, steady, output) == [n |-> n, steady |-> steady, output |-> output]

InitOscillator ==
    /\ oscillator = NoOscillator
    /\ osc_last = OscCall(0, TRUE, 0)

NewOscillator ==
    \E frequency \in OscFrequencies, waveform \in OscWaveforms :
        /\ oscillator' = multi_oscillator_new(frequency, waveform, OscRate)
        /\ osc_last' = OscCall(0, TRUE, 0)
        /\ Rest("oscillator")

OscSetFrequency ==
    \E freq \in OscFrequencies :
        /\ oscillator # NoOscillator
        /\ oscillator' = osc_set_frequency(oscillator, freq)
        /\ osc_last' = [osc_last EXCEPT !.steady = FALSE]
        /\ Rest("oscillator")

OscSetWaveform ==
    \E waveform \in OscWaveforms :
        /\ oscillator # NoOscillator
        /\ oscillator' = osc_set_waveform(oscillator, waveform)
        /\ osc_last' = [osc_last EXCEPT !.steady = FALSE]
        /\ Rest("oscillator")

OscTick ==
    LET r == multi_oscillator_tick(oscillator)
    IN /\ oscillator # NoOscillator
       /\ osc_last.n < MaxOscTicks
       /\ oscillator' = r.oscillator
       /\ osc_last' = [osc_last EXCEPT !.n = osc_last.n + 1,
                                       !.output = r.output]
       /\ Rest("oscillator")

OscReset ==
    /\ oscillator # NoOscillator
    /\ oscillator' = multi_oscillator_reset(oscillator)
    /\ osc_last' = OscCall(0, TRUE, 0)
    /\ Rest("oscillator")

NextOscillator ==
    \/ NewOscillator
    \/ OscSetFrequency
    \/ OscSetWaveform
    \/ OscTick
    \/ OscReset

(***************************************************************************)
(* DAWApp and the key handlers of AppMode (app/state.rs, app/modes.rs).    *)
(* A module is kept by its type; ids are numbered in the order of their    *)
(* creation (Uuid::new_v4 never repeats); selected_module None is 0.       *)
(***************************************************************************)
NoSelection == 0

\* DAWApp::new
daw_app_new ==
    [modules |-> MapInsert(MapInsert(<<>>, 1, "Oscillator"), 2, "Output"),
     connections |-> <<>>,
     selected_module |-> NoSelection,
     mode |-> "ModuleView",
     created |-> 2]

\* DAWApp::cycle_selected_module: the position after the current one in
\* the order the map lists its keys in, which is any order.
cycle_selected_module(a) ==
    LET module_ids == DOMAIN a.modules
    IN IF module_ids = {} THEN {a}
       ELSE IF a.selected_module = NoSelection
       THEN {[a EXCEPT !.selected_module = id] : id \in module_ids}
       ELSE IF a.selected_module \notin module_ids THEN {a}
       ELSE IF Cardinality(module_ids) = 1 THEN {a}
       ELSE {[a EXCEPT !.selected_module = id] :
                id \in module_ids \ {a.selected_module}}

\* DAWApp::add_module
app_add_module(a, module_type) ==
    [a EXCEPT !.modules = MapInsert(a.modules, a.created + 1, module_type),
              !.created = a.created + 1]

\* handle_module_view, KeyCode::Char('d')
delete_selected(a) ==
    IF a.selected_module = NoSelection THEN a
    ELSE [a EXCEPT !.modules = MapRemove(a.modules, a.selected_module),
                   !.selected_module = NoSelection]

\* ui::connections_view::validate_connection
validate_connection(a, c) ==
    /\ c.from_module \in DOMAIN a.modules
    /\ c.to_module \in DOMAIN a.modules
    /\ c.from_module # c.to_module
    /\ c.from_output < output_count(a.modules[c.from_module])
    /\ c.to_input < input_count(a.modules[c.to_module])
    /\ \A i \in DOMAIN a.connections : a.connections[i] # c
    /\ \A i \in DOMAIN a.connections :
          ~(/\ a.connections[i].to_module = c.to_module
            /\ a.connections[i].to_input = c.to_input)

\* Every Connection the owner of a DAWApp may try to add.
AppConnInputs ==
    {Connection(f, o, t, i) : f \in 1..MaxAppModules, o \in OutPorts,
                              t \in 1..MaxAppModules, i \in InPorts}

InitApp == app = daw_app_new

KeyTab ==
    /\ app.mode = "ModuleView"
    /\ app' \in cycle_selected_module(app)
    /\ Rest("app")

KeyEnter ==
    /\ app.mode = "ModuleView"
    /\ app' = IF app.selected_module # NoSelection
              THEN [app EXCEPT !.mode = "ParameterEdit"] ELSE app
    /\ Rest("app")

KeyAdd ==
    /\ app.mode = "ModuleView"
    /\ app' = [app EXCEPT !.mode = "ModuleAdd"]
    /\ Rest("app")

KeyConnect ==
    /\ app.mode = "ModuleView"
    /\ app' = IF app.selected_module # NoSelection
              THEN [app EXCEPT !.mode = "Connection"] ELSE app
    /\ Rest("app")

KeyDelete ==
    /\ app.mode = "ModuleView"
    /\ app' = delete_selected(app)
    /\ Rest("app")

\* Esc in parameter edit, module add and connection mode.
KeyEsc ==
    /\ app.mode # "ModuleView"
    /\ app' = [app EXCEPT !.mode = "ModuleView"]
    /\ Rest("app")

\* One of the six type keys in module add mode.
KeyType ==
    \E module_type \in ModuleTypes :
        /\ app.mode = "ModuleAdd"
        /\ app.created < MaxAppModules
        /\ app' = [app_add_module(app, module_type) EXCEPT !.mode = "ModuleView"]
        /\ Rest("app")

\* The owner of the DAWApp pushes a connection that validate_connection
\* accepts onto the public connection list; no key does.
PushConnection ==
    \E c \in AppConnInputs :
        /\ validate_connection(app, c)
        /\ app' = [app EXCEPT !.connections = Append(app.connections, c)]
        /\ Rest("app")

NextApp ==
    \/ KeyTab
    \/ KeyEnter
    \/ KeyAdd
    \/ KeyConnect
    \/ KeyDelete
    \/ KeyEsc
    \/ KeyType
    \/ PushConnection

InitParts ==
    /\ InitParam /\ InitModule /\ InitEnvelope /\ InitDelay
    /\ InitOscillator /\ InitApp

(***************************************************************************)
(* State machine: a caller applying the operations in any order.           *)
(***************************************************************************)
\* The connection argument recorded for the calls that take none.
NoConnection == Connection(NoModule, 0, NoModule, 0)

\* `last` records the latest call: the operation, its module argument
\* (add_module, remove_module), its connection argument (add_connection),
\* its result, and how many stored connections the call dropped.
Call(op, module, connection, result, dropped) ==
    [op |-> op, module |-> module, connection |-> connection,
     result |-> result, dropped |-> dropped]

SetGraph(g) ==
    /\ nodes' = g.nodes
    /\ connections' = g.connections
    /\ output_node' = g.output_node

InitGraph ==
    /\ nodes = new.nodes
    /\ connections = new.connections
    /\ output_node = new.output_node
    /\ connectable = {}
    /\ last = Call("new", NoModule, NoConnection, Ok, 0)
    /\ buffer = <<>>

Init == InitGraph /\ InitEngine /\ InitSeq /\ InitParts

\* The ids of the descriptors that can be handed to add_module: a
\* descriptor gets its id from Uuid::new_v4 when it is made, so the id of
\* a module being added is the id of no node of the graph.  (An id is
\* reused here once its node is removed, when nothing of it is left.)
FreshIds == ModuleIds \ DOMAIN nodes

AddModule ==
    \E id \in FreshIds :
        /\ SetGraph(add_module(Graph, AudioModule(id, DefaultSetting)))
        /\ last' = Call("add_module", id, NoConnection, Ok, 0)
        /\ UNCHANGED <<connectable, buffer, outside_graph>>

RemoveModule ==
    \E id \in ModuleIds :
        LET g == remove_module(Graph, id)
        IN /\ SetGraph(g)
           /\ last' = Call("remove_module", id, NoConnection, Ok,
                           Len(connections) - Len(g.connections))
           /\ UNCHANGED <<connectable, buffer, outside_graph>>

\* The Vec of connections is unbounded; the model stops adding at MaxConns.
AddConnection ==
    \E c \in ConnInputs :
        LET r == add_connection(Graph, c)
        IN /\ Len(r.graph.connections) <= MaxConns
           /\ SetGraph(r.graph)
           /\ last' = Call("add_connection", NoModule, c, r.result, 0)
           /\ UNCHANGED <<connectable, buffer, outside_graph>>

RemoveConnection ==
    \E c \in ConnInputs :
        LET g == remove_connection(Graph, c.from_module, c.from_output,
                                   c.to_module, c.to_input)
        IN /\ SetGraph(g)
           /\ last' = Call("remove_connection", NoModule, NoConnection, Ok,
                           Len(connections) - Len(g.connections))
           /\ UNCHANGED <<connectable, buffer, outside_graph>>

GetConnectableOutputs ==
    \E to_module \in ModuleIds, to_input \in InPorts :
        /\ connectable' = get_connectable_outputs(Graph, to_module, to_input)
        /\ last' = Call("get_connectable_outputs", NoModule, NoConnection, Ok, 0)
        /\ UNCHANGED <<nodes, connections, output_node, buffer, outside_graph>>

Next ==
    \/ AddModule
    \/ RemoveModule
    \/ AddConnection
    \/ RemoveConnection
    \/ GetConnectableOutputs

Spec == Init /\ [][Next]_vars

(***************************************************************************)
(* State machine: a caller that builds a small patch and plays it.         *)
(***************************************************************************)
\* The connections this caller tries: the Oscillator into input 0 of
\* either Output.
SignalConns ==
    {Connection(f, 0, t, 0) : f \in {id \in SignalIds : ModuleTypeOf(id) = "Oscillator"},
                              t \in {id \in SignalIds : ModuleTypeOf(id) = "Output"}}

\* What the caller's buffer may hold before a call of process.
StaleSamples == {0, 7}

SignalAddModule ==
    \E id \in SignalIds \ DOMAIN nodes, setting \in Settings :
        /\ SetGraph(add_module(Graph, AudioModule(id, setting)))
        /\ last' = Call("add_module", id, NoConnection, Ok, 0)
        /\ UNCHANGED <<connectable, buffer, outside_graph>>

SignalRemoveModule ==
    \E id \in SignalIds :
        LET g == remove_module(Graph, id)
        IN /\ SetGraph(g)
           /\ last' = Call("remove_module", id, NoConnection, Ok,
                           Len(connections) - Len(g.connections))
           /\ UNCHANGED <<connectable, buffer, outside_graph>>

SignalAddConnection ==
    \E c \in SignalConns :
        LET r == add_connection(Graph, c)
        IN /\ Len(r.graph.connections) <= MaxConns
           /\ SetGraph(r.graph)
           /\ last' = Call("add_connection", NoModule, c, r.result, 0)
           /\ UNCHANGED <<connectable, buffer, outside_graph>>

UpdateModule ==
    \E id \in SignalIds, setting \in Settings :
        /\ SetGraph(update_module(Graph, AudioModule(id, setting)))
        /\ last' = Call("update_module", id, NoConnection, Ok, 0)
        /\ UNCHANGED <<connectable, buffer, outside_graph>>

\* The tick count of a unit is unbounded; the model stops at MaxSamples.
Process ==
    \E frames \in 1..MaxFrames, stale \in StaleSamples :
        LET r == process(Graph, [i \in 1..frames |-> stale])
        IN /\ \A id \in DOMAIN r.graph.nodes :
                  r.graph.nodes[id].audio_unit.samples <= MaxSamples
           /\ SetGraph(r.graph)
           /\ buffer' = r.output
           /\ last' = Call("process", NoModule, NoConnection, r.result, 0)
           /\ UNCHANGED <<connectable, outside_graph>>

NextSignal ==
    \/ SignalAddModule
    \/ SignalRemoveModule
    \/ SignalAddConnection
    \/ UpdateModule
    \/ Process

SpecSignal == Init /\ [][NextSignal]_vars

\* The engine with its two threads interleaved step by step.
SpecEngine == Init /\ [][NextEngine]_vars

\* A sequencer edited and ticked in any order.
SpecSeq == Init /\ [][NextSeq]_vars

\* A sequencer ticked from a fixed set-up.
InitRun == InitGraph /\ InitEngine /\ InitSeqRun /\ InitParts

SpecSeqRun == InitRun /\ [][NextSeqRun]_vars

\* One parameter built and adjusted.
SpecParam == Init /\ [][NextParam]_vars

\* One module built, or taken from a preset factory, and set.
SpecModule == Init /\ [][NextModule]_vars

\* One envelope built, played and released.
SpecEnvelope == Init /\ [][NextEnvelope]_vars

\* One delay line built and fed.
SpecDelay == Init /\ [][NextDelay]_vars

\* One oscillator built and run.
SpecOscillator == Init /\ [][NextOscillator]_vars

\* The application under its keys.
SpecApp == Init /\ [][NextApp]_vars

SpecSeqSize == Init /\ [][NextSeqSize]_vars

(***************************************************************************)
(* Vocabulary of the properties.                                           *)
(***************************************************************************)
\* The connection names the module as its source or its destination.
Touches(conn, id) == conn.from_module = id \/ conn.to_module = id

\* The modules fed directly by a module of S through the connections cs.
Successors(cs, S) ==
    {cs[i].to_module : i \in {j \in DOMAIN cs : cs[j].from_module \in S}}

\* The least set that holds S and is closed under Successors.
RECURSIVE Closure(_, _)
Closure(cs, S) ==
    LET T == S \cup Successors(cs, S)
    IN IF T = S THEN S ELSE Closure(cs, T)

\* The modules a signal leaving module id arrives at, over one or more
\* connections of cs.
Downstream(cs, id) == Closure(cs, Successors(cs, {id}))

\* reachable(from, target) of the cycle check, over the connection list.
Reaches(cs, from, target) == from = target \/ target \in Downstream(cs, from)

HasCycle(cs) == \E id \in ModuleIds : id \in Downstream(cs, id)

\* The elements of s that satisfy Keep, in the order they have in s,
\* given by position: the k-th kept element is the one with k - 1 kept
\* elements before it.
KeptInOrder(s, Keep(_)) ==
    LET kept == {i \in DOMAIN s : Keep(s[i])}
        rank(i) == Cardinality({j \in kept : j < i}) + 1
    IN [k \in 1..Cardinality(kept) |-> s[CHOOSE i \in kept : rank(i) = k]]

\* The adjacency the nodes hold: per node, its input slots and its
\* output list.
Adjacency(ns) ==
    [id \in DOMAIN ns |-> <<ns[id].input_connections, ns[id].output_connections>>]

(***************************************************************************)
(* Properties of the signal graph.                                         *)
(***************************************************************************)
\* C1: the stored connection set never holds a directed cycle over the
\* modules, and add_connection of a connection whose destination already
\* reaches its source through the stored connections returns the cycle
\* error and stores nothing.
C1_NoCycleStored ==
    /\ ~HasCycle(connections)
    /\ \A c \in ConnInputs :
        (/\ c.from_module \in DOMAIN nodes
         /\ c.to_module \in DOMAIN nodes
         /\ Reaches(connections, c.to_module, c.from_module))
        => LET r == add_connection(Graph, c)
           IN r.result = ErrCycle /\ r.graph.connections = connections

\* C2: a call of add_connection that returns an error leaves the node
\* set, the connection list, every node's adjacency and the active output
\* exactly as they were before the call.
C2_ErrorLeavesGraphUnchanged ==
    [][(last'.op = "add_connection" /\ last'.result # Ok)
        => (nodes' = nodes /\ connections' = connections
            /\ output_node' = output_node)]_vars

\* C2 witness: add_connection has just failed on a graph that holds
\* nodes, connections and an active output.
C2_Witness ==
    /\ last.op = "add_connection"
    /\ last.result # Ok
    /\ connections # <<>>
    /\ output_node # NoModule

\* C3: both modules of every stored connection are nodes of the graph;
\* add_connection fails with the not-found error of the missing side when
\* a module is missing, and remove_module leaves no connection that names
\* the removed module.
C3_EndpointsExist ==
    /\ \A i \in DOMAIN connections :
        /\ connections[i].from_module \in DOMAIN nodes
        /\ connections[i].to_module \in DOMAIN nodes
    /\ \A c \in ConnInputs :
        (c.from_module \notin DOMAIN nodes \/ c.to_module \notin DOMAIN nodes)
        => add_connection(Graph, c).result \in {ErrSourceNotFound, ErrDestinationNotFound}
    /\ last.op = "remove_module"
        => \A i \in DOMAIN connections : ~Touches(connections[i], last.module)

\* C3 witness: remove_module has just dropped the connections of the
\* module it removed.
C3_Witness ==
    /\ last.op = "remove_module"
    /\ last.dropped > 0
    /\ last.module \notin DOMAIN nodes

\* C4: no two stored connections share a destination module and input
\* port, and add_connection to a destination port that already has
\* another source fails and stores nothing.
C4_OneSourcePerInput ==
    /\ \A i, j \in DOMAIN connections :
        i # j => ~(/\ connections[i].to_module = connections[j].to_module
                   /\ connections[i].to_input = connections[j].to_input)
    /\ \A c \in ConnInputs :
        (/\ c.from_module \in DOMAIN nodes
         /\ c.to_module \in DOMAIN nodes
         /\ \E i \in DOMAIN connections :
              /\ connections[i].to_module = c.to_module
              /\ connections[i].to_input = c.to_input
              /\ <<connections[i].from_module, connections[i].from_output>>
                     # <<c.from_module, c.from_output>>)
        => LET r == add_connection(Graph, c)
           IN r.result # Ok /\ r.graph.connections = connections

\* C5: every stored connection has its output port below the output
\* count of its source and its input port below the input count of its
\* destination, and add_connection fails when either port is out of range.
C5_PortsInRange ==
    /\ \A i \in DOMAIN connections :
        /\ connections[i].from_output
               < output_count(ModuleTypeOf(connections[i].from_module))
        /\ connections[i].to_input
               < input_count(ModuleTypeOf(connections[i].to_module))
    /\ \A c \in ConnInputs :
        (/\ c.from_module \in DOMAIN nodes
         /\ c.to_module \in DOMAIN nodes
         /\ \/ c.from_output >= output_count(ModuleTypeOf(c.from_module))
            \/ c.to_input >= input_count(ModuleTypeOf(c.to_module)))
        => add_connection(Graph, c).result # Ok

\* C6: the connection list never holds the same 4-tuple twice, and
\* add_connection of a tuple that is already stored fails.
C6_NoDuplicate ==
    /\ \A i, j \in DOMAIN connections : i # j => connections[i] # connections[j]
    /\ \A c \in ConnInputs :
        (\E i \in DOMAIN connections : connections[i] = c)
        => add_connection(Graph, c).result # Ok

\* C7: add_connection with from_module equal to to_module fails, whatever
\* the ports, the nodes and the stored connections: the self-connection
\* just attempted failed, and every one that could be attempted now fails.
C7_SelfConnectionRejected ==
    /\ (last.op = "add_connection"
        /\ last.connection.from_module = last.connection.to_module)
        => last.result # Ok
    /\ \A c \in ConnInputs :
        c.from_module = c.to_module => add_connection(Graph, c).result # Ok

\* C7 witness: a self-connection of a module of the graph has just been
\* refused while other connections are stored.
C7_Witness ==
    /\ last.op = "add_connection"
    /\ last.connection.from_module = last.connection.to_module
    /\ last.connection.from_module \in DOMAIN nodes
    /\ last.result = ErrCycle
    /\ connections # <<>>

\* C8: remove_module(id) leaves the connections that do not touch id, all
\* of them and in their order, and no connection that touches id; the
\* nodes other than id stay, each with its unit.
C8_RemoveModuleExact ==
    [][last'.op = "remove_module"
        => /\ connections' = KeptInOrder(connections,
                                 LAMBDA conn : ~Touches(conn, last'.module))
           /\ DOMAIN nodes' = DOMAIN nodes \ {last'.module}
           /\ \A id \in DOMAIN nodes' :
                nodes'[id].audio_unit = nodes[id].audio_unit]_vars

\* C8 witness: remove_module has just dropped one connection and kept
\* another, with nodes left in the graph.
C8_Witness ==
    /\ last.op = "remove_module"
    /\ last.dropped = 1
    /\ Len(connections) >= 1
    /\ Cardinality(DOMAIN nodes) >= 2

C10_ConnectableOutputsExact ==
    \A to_module \in DOMAIN nodes, to_input \in InPorts :
        get_connectable_outputs(Graph, to_module, to_input)
        = {<<module_id, output_idx>> \in (DOMAIN nodes \ {to_module}) \X OutPorts :
              /\ output_idx < output_count(ModuleTypeOf(module_id))
              /\ ~would_create_cycle(
                     Graph, Connection(module_id, output_idx, to_module, to_input))}

\* C11: update_module on a node of the graph changes the parameter values
\* of the node's unit and nothing else: what the unit has accumulated
\* since it was built (its internal DSP state) and everything else in the
\* graph is the same after the call as before it.
C11_UpdateKeepsUnitState ==
    [][last'.op = "update_module" /\ last'.module \in DOMAIN nodes
        => \E setting \in Settings :
              /\ nodes' = [nodes EXCEPT
                               ![last'.module].audio_unit.setting = setting]
              /\ connections' = connections
              /\ output_node' = output_node]_vars

\* The buffer a graph traversal yields for `frames` samples when `source`
\* feeds input 0 of the Output `sink`: each sample is the sink's tick on
\* the source's tick of the same frame.
RECURSIVE Traversal(_, _, _)
Traversal(source, sink, frames) ==
    IF frames = 0
    THEN <<>>
    ELSE LET s == tick(source, <<>>)
             t == tick(sink, <<s.output[1], 0>>)
         IN <<t.output[1]>> \o Traversal(s.unit, t.unit, frames - 1)

\* C12: when process has just run on a graph whose active Output has
\* output 0 of an Oscillator connected to its input 0, the buffer holds
\* the Oscillator's signal scaled by the Output's gain.
C12_BufferCarriesSource ==
    last.op = "process" /\ output_node \in DOMAIN nodes
    => \A i \in DOMAIN connections :
          LET conn == connections[i]
          IN (/\ conn.to_module = output_node
              /\ conn.to_input = 0
              /\ conn.from_output = 0
              /\ nodes[conn.from_module].audio_unit.kind = "Oscillator")
             => buffer = Traversal(
                    nodes[conn.from_module].audio_unit,
                    [nodes[output_node].audio_unit EXCEPT
                        !.samples = @ - Len(buffer)],
                    Len(buffer))

\* C13: in every state process returns Ok for every buffer, and with no
\* active output node it leaves 0 in every sample of the buffer.
C13_ProcessOkAndSilent ==
    /\ last.op = "process" => last.result = Ok
    /\ \A frames \in 1..MaxFrames, stale \in StaleSamples :
          LET r == process(Graph, [i \in 1..frames |-> stale])
          IN /\ r.result = Ok
             /\ output_node = NoModule
                  => /\ r.output = [i \in 1..frames |-> 0]
                     /\ r.graph = Graph

\* C13 witness: process has just filled a buffer with silence on a graph
\* that holds an Output node but has no active output.
C13_Witness ==
    /\ last.op = "process"
    /\ last.result = Ok
    /\ output_node = NoModule
    /\ buffer = [i \in 1..MaxFrames |-> 0]
    /\ \E id \in DOMAIN nodes : nodes[id].audio_unit.kind = "Output"

\* C14: add_module of an Output makes that module the active output,
\* add_module of any other type leaves the active output alone,
\* remove_module clears the active output exactly when it removes it, and
\* no other operation changes it; the active output is always an Output
\* node of the graph.
C14_ActiveOutputIsLatest ==
    [][/\ output_node # NoModule
          => /\ output_node \in DOMAIN nodes
             /\ nodes[output_node].audio_unit.kind = "Output"
       /\ last'.op = "add_module"
          => output_node' = IF ModuleTypeOf(last'.module) = "Output"
                            THEN last'.module ELSE output_node
       /\ last'.op = "remove_module"
          => output_node' = IF output_node = last'.module
                            THEN NoModule ELSE output_node
       /\ last'.op \notin {"add_module", "remove_module"}
          => output_node' = output_node]_vars

\* C14 witness: an Output has just been added to a graph that had
\* another Output active, and is the active output now.
C14_Witness ==
    /\ last.op = "add_module"
    /\ output_node = last.module
    /\ \E id \in DOMAIN nodes \ {output_node} :
          /\ nodes[id].audio_unit.kind = "Output"
          /\ nodes[id].audio_unit.samples > 0

\* The callback stands at a lock() whose mutex the control thread holds.
CallbackBlocked ==
    \/ callback.pc = "lock_frequency" /\ frequency_lock = ControlThread
    \/ callback.pc = "lock_amplitude" /\ amplitude_lock = ControlThread

\* C15: in no interleaving of update_frequency / update_amplitude with
\* the audio callback does the callback wait for a mutex that the control
\* thread holds.
C15_CallbackNeverWaits == ~CallbackBlocked

\* C16: an invocation of the callback reads the shared frequency and
\* amplitude once, as they are stored at that moment, and every sample it
\* writes is computed with those two values, whatever the control thread
\* stores while the block is being filled.
C16_OneValuePerBlock ==
    [][/\ \A i \in DOMAIN callback'.data :
             /\ callback'.data[i].frequency = callback'.data[1].frequency
             /\ callback'.data[i].amplitude = callback'.data[1].amplitude
             /\ callback'.data[i].frequency = callback'.frequency
             /\ callback'.data[i].amplitude = callback'.amplitude
       /\ callback.pc = "read_frequency" /\ callback'.pc # callback.pc
          => callback'.frequency = current_frequency
       /\ callback.pc = "read_amplitude" /\ callback'.pc # callback.pc
          => callback'.amplitude = current_amplitude
       /\ callback.pc = "fill"
          => /\ callback'.frequency = callback.frequency
             /\ callback'.amplitude = callback.amplitude]_vars

\* C16 witness: a block is complete, the control thread stored a new
\* frequency after its first sample and before its last, and the whole
\* block was computed with the old one.
C16_Witness ==
    /\ callback.pc = "fill"
    /\ Len(callback.data) = callback.len
    /\ changed_at >= 1
    /\ changed_at < callback.len
    /\ current_frequency # callback.frequency

\* C17: in a run at a fixed tempo and resolution with swing 0, started
\* playing from a reset sequencer, the counter is the exact remainder
\* ticks - k * samples_per_step, so the k-th step boundary falls on tick
\* ceil(k * samples_per_step) and two boundaries are floor or ceil of
\* samples_per_step ticks apart; with every step active at probability
\* 1 each boundary returns an event.  At 44100 Hz, 120 BPM and sixteenth
\* resolution the boundaries are 5512 or 5513 ticks apart and 88200
\* ticks return exactly 16 events.
C17_BoundaryAtCeiling ==
    LET sps == sequencer.samples_per_step
        k == run.boundaries
    IN /\ sequencer.sample_counter = run.ticks * Unit - k * sps
       /\ sequencer.sample_counter < sps
       /\ run.events = k
       /\ k >= 1
          => /\ (run.at - 1) * Unit < k * sps
             /\ k * sps <= run.at * Unit
             /\ run.gap \in {sps \div Unit, (sps + Unit - 1) \div Unit}
       /\ (/\ sequencer.sample_rate = PresetRate
           /\ tempo = PresetBpm
           /\ sequencer.step_resolution = "Sixteenth")
          => /\ k >= 1 => run.gap \in {5512, 5513}
             /\ run.ticks = 88200 => run.events = 16

\* C17 witness: the preset's run has made its 88200 ticks, and the 16th
\* boundary fell on the last of them.
C17_Witness ==
    /\ sequencer.sample_rate = PresetRate
    /\ run.ticks = 88200
    /\ run.boundaries = 16
    /\ run.at = 88200
    /\ seq_last.event # NoEvent

\* The tick about to be made is a step boundary: the sequencer plays and
\* the counter, one sample on, reaches the length of the current step.
AtBoundary(sq) ==
    sq.is_playing /\ sq.sample_counter + Unit >= step_length(sq)

\* C18: tick returns an event only on a step-boundary tick; on such a
\* tick, with a step at current_step, it returns one exactly when the
\* step is active and its probability is at least 1 or the draw is below
\* it, and the event carries the index, the note and the velocity of
\* that step.
C18_EventIffTriggered ==
    [][seq_last'.op = "tick"
        => LET sq == sequencer
               event == seq_last'.event
               draw == seq_last'.draw
           IN /\ event # NoEvent => AtBoundary(sq)
              /\ (AtBoundary(sq) /\ sq.current_step < Len(sq.steps))
                 => LET step == sq.steps[sq.current_step + 1]
                    IN /\ event # NoEvent
                          <=> /\ step.active
                              /\ \/ step.probability >= FullProbability
                                 \/ draw # NoDraw /\ draw < step.probability
                       /\ event # NoEvent
                          => /\ event.step_index = sq.current_step
                             /\ event.note = step.note
                             /\ event.velocity = step.velocity]_vars

\* C18 witness: a step of probability below 1 has just triggered on a
\* low draw.
C18_Witness ==
    /\ seq_last.op = "tick"
    /\ seq_last.event # NoEvent
    /\ seq_last.draw # NoDraw
    /\ seq_last.event.velocity < DefaultStep.velocity

\* C19: a step-boundary tick moves current_step on by one, or to step 0
\* when that passes the last step and loop_enabled is set; when it
\* passes the last step with loop_enabled clear, is_playing becomes
\* false.  No other tick moves current_step or stops the sequencer, and
\* a tick of a sequencer that is not playing returns no event and
\* changes nothing.
C19_AdvanceWrapOrStop ==
    [][seq_last'.op = "tick"
        => LET sq == sequencer
               next == sq.current_step + 1
               past == next >= Len(sq.steps)
           IN /\ AtBoundary(sq)
                 => /\ sequencer'.current_step =
                          IF past /\ sq.loop_enabled THEN 0 ELSE next
                    /\ sequencer'.is_playing = ~(past /\ ~sq.loop_enabled)
              /\ ~AtBoundary(sq)
                 => /\ sequencer'.current_step = sq.current_step
                    /\ sequencer'.is_playing = sq.is_playing
              /\ ~sq.is_playing
                 => /\ sequencer' = sq
                    /\ seq_last'.event = NoEvent]_vars

\* C19 witness: with loop_enabled clear, the tick that passed the last
\* step has just stopped the sequencer.
C19_Witness ==
    /\ seq_last.op = "tick"
    /\ seq_last.boundary
    /\ ~sequencer.is_playing
    /\ ~sequencer.loop_enabled
    /\ sequencer.current_step = Len(sequencer.steps)
    /\ seq_last.event # NoEvent

\* The step length the tempo and the fields of sq give.
ExpectedStepLength(sq, bpm) ==
    LET base == (sq.sample_rate * 60 * Unit)
                    \div (bpm * steps_per_beat(sq.step_resolution))
    IN IF sq.swing > 0 /\ sq.current_step % 2 = 1
       THEN (base * (200 + sq.swing)) \div 200
       ELSE base

\* C20: once a tempo has been set, the step length used at every step
\* boundary is sample_rate / (BPM / 60 * steps_per_beat) for the tempo
\* and the resolution the sequencer has at that tick, times
\* 1 + swing * 0.5 on an odd step.
C20_StepLengthFollowsEdits ==
    [][(seq_last'.op = "tick" /\ AtBoundary(sequencer) /\ tempo # NoTempo)
        => seq_last'.gate = ExpectedStepLength(sequencer, tempo)]_vars

\* C21: for a parameter with min < max and its value in [min, max],
\* adjust(delta) stores clamp(value + delta * (max - min), min, max) for
\* every delta; the value of a parameter is in [min, max] and its
\* normalized value in [0, 1] after any sequence of adjust calls.
C21_AdjustClamps ==
    param # NoParameter
    => /\ param.min < param.max
       /\ param.min <= param.value
       /\ param.value <= param.max
       /\ 0 <= normalized(param)
       /\ normalized(param) <= 100
       /\ \A delta \in Deltas :
             LET sum == param.value + delta * ((param.max - param.min) \div 100)
             IN adjust(param, delta).value =
                    IF sum < param.min THEN param.min
                    ELSE IF sum > param.max THEN param.max
                    ELSE sum

\* C21 witness: the Time of a Delay (0.25 in [0.01, 2.0]) has been
\* adjusted up to its maximum, which no whole number of steps reaches.
C21_Witness ==
    /\ param.name = "Time"
    /\ param.value = param.max

\* C22: every parameter of a module has min <= value <= max in every
\* reachable state, after any sequence of the typed setters and of preset
\* application: a request outside the range is never stored.
C22_ParametersInRange ==
    \A i \in DOMAIN audio_module.parameters :
        /\ audio_module.parameters[i].min <= audio_module.parameters[i].value
        /\ audio_module.parameters[i].value <= audio_module.parameters[i].max

\* C23: after note_off the level ramps linearly from the level it had at
\* note_off down to 0 over floor(release_time * sample_rate) samples,
\* whatever state the envelope was released from: while in Release the k-th
\* tick after note_off returns that level times (1 - (k - 1) / samples),
\* which never exceeds the level at note_off and never exceeds the level of
\* the tick before.
C23_ReleaseRampsFromLevelAtNoteOff ==
    (/\ envelope.state = "Release"
     /\ env_last.op = "tick"
     /\ env_last.released_from \in {"Attack", "Decay", "Sustain"})
    => LET release_samples == samples_of(envelope.release_time, envelope.sample_rate)
       IN /\ envelope.current_level * release_samples =
                 env_last.level_at_off * (release_samples - (env_last.ticks - 1))
          /\ envelope.current_level <= env_last.level_at_off
          /\ envelope.current_level <= env_last.before

\* C24: the envelope changes state only inside tick, by its sample counts,
\* or by note_on and note_off.  A tick moves it from Attack to Decay, from
\* Decay to Sustain, from Release to Idle, and nowhere else; note_on puts it
\* in Attack and note_off in Release.  After note_on it has left Attack
\* after floor(attack_time * sample_rate) + 1 ticks and is in Sustain after
\* floor(decay_time * sample_rate) + 1 more, where it stays; after note_off
\* it is Idle after floor(release_time * sample_rate) + 1 ticks, and an
\* Idle envelope has level 0.
C24_StateChange ==
    envelope'.state # envelope.state
    => \/ env_last'.op = "new" /\ envelope'.state = "Idle"
       \/ env_last'.op = "note_on" /\ envelope'.state = "Attack"
       \/ env_last'.op = "note_off" /\ envelope'.state = "Release"
       \/ /\ env_last'.op = "tick"
          /\ <<envelope.state, envelope'.state>> \in
                {<<"Attack", "Decay">>, <<"Decay", "Sustain">>,
                 <<"Release", "Idle">>}

C24_InTime ==
    LET attack_samples == samples_of(envelope.attack_time, envelope.sample_rate)
        decay_samples == samples_of(envelope.decay_time, envelope.sample_rate)
        release_samples == samples_of(envelope.release_time, envelope.sample_rate)
    IN /\ envelope.state = "Attack" => env_last.ticks <= attack_samples
       /\ envelope.state = "Decay"
            => env_last.ticks <= attack_samples + 1 + decay_samples
       /\ envelope.state = "Release" => env_last.ticks <= release_samples
       /\ envelope.state = "Idle" => envelope.current_level = 0

C24_StatesInOrder == [][C24_StateChange]_vars /\ []C24_InTime

\* C24 witness: an envelope released from Sustain with three samples of
\* release has become Idle on the fourth tick after note_off.
C24_Witness ==
    /\ env_last.op = "tick"
    /\ env_last.from = "Release"
    /\ env_last.released_from = "Sustain"
    /\ env_last.ticks = 4
    /\ envelope.state = "Idle"

\* C25: a delay built with feedback 0, wet 1 and a delay of D samples
\* returns at tick n (counted from 0) the input of tick n - D when n >= D
\* and 0 when n < D, for every D it can be built with.
C25_OutputIsInputDelayed ==
    (/\ simple_delay # NoDelay
     /\ simple_delay.feedback = 0
     /\ simple_delay.wet = 100
     /\ delay_last.inputs # <<>>)
    => LET n == Len(delay_last.inputs) - 1
           D == simple_delay.delay_samples
       IN delay_last.output = IF n >= D THEN delay_last.inputs[n - D + 1] ELSE 0

\* C26: the n-th output (n from 0) of a sine oscillator of amplitude 1 is
\* the sine of the phase n * (2 * pi * f / sr) wrapped into one turn, so the
\* first sample after construction or reset is the sine of phase 0, which
\* is 0.
C26_SineAtPhaseOfIndex ==
    (/\ oscillator # NoOscillator
     /\ oscillator.waveform = 0
     /\ osc_last.steady
     /\ osc_last.n >= 1)
    => LET n == osc_last.n - 1
           phase_increment ==
               (oscillator.frequency * Turn) \div oscillator.sample_rate
       IN /\ osc_last.output = sin((n * phase_increment) % Turn)
          /\ n = 0 => osc_last.output = 0

\* C27: an Output module whose enabled flag is false yields (0, 0) for
\* every input sample, through process_mono_to_stereo and process_stereo
\* of the module and through the Output unit the graph builds for it.
C27_DisabledOutputIsSilent ==
    (audio_module.module_type = "Output" /\ ~audio_module.enabled)
    => \A left \in OutputSamples, right \in OutputSamples :
         /\ process_mono_to_stereo(audio_module, left) = <<0, 0>>
         /\ process_stereo(audio_module, left, right) = <<0, 0>>
         /\ output_unit_tick(create_output_unit(audio_module), left, right)
              = <<0, 0>>

\* C28: deleting the selected module (key 'd' in module view) removes the
\* module and every connection of the application's list that names it as
\* source or destination, and clears the selection; so no connection of
\* the application ever names a module that is not in the module map.
C28_DeleteStep ==
    (/\ app.selected_module \in DOMAIN app.modules
     /\ app.selected_module \notin DOMAIN app'.modules)
    => /\ app'.modules = MapRemove(app.modules, app.selected_module)
       /\ app'.selected_module = NoSelection
       /\ app'.connections =
              SelectSeq(app.connections,
                        LAMBDA c : /\ c.from_module # app.selected_module
                                   /\ c.to_module # app.selected_module)

C28_NoDanglingConnection ==
    \A i \in DOMAIN app.connections :
        /\ app.connections[i].from_module \in DOMAIN app.modules
        /\ app.connections[i].to_module \in DOMAIN app.modules

C28_DeleteRemovesConnections ==
    [][C28_DeleteStep]_vars /\ []C28_NoDanglingConnection

\* C29: after add_connection, remove_connection and remove_module the
\* adjacency of the nodes agrees with the connection list: for every stored
\* connection the output list of its source holds its destination and the
\* input slot to_input of its destination holds its source, and every
\* entry of an output list and every filled input slot comes from a stored
\* connection.
C29_AdjacencyAgreesWithConnections ==
    last.op \in {"add_connection", "remove_connection", "remove_module"}
    => /\ \A i \in DOMAIN connections :
            LET c == connections[i]
            IN /\ c.from_module \in DOMAIN nodes
               /\ c.to_module \in DOMAIN nodes
               /\ \E k \in DOMAIN nodes[c.from_module].output_connections :
                     nodes[c.from_module].output_connections[k] = c.to_module
               /\ c.to_input + 1 \in DOMAIN nodes[c.to_module].input_connections
               /\ nodes[c.to_module].input_connections[c.to_input + 1]
                    = c.from_module
       /\ \A id \in DOMAIN nodes :
            /\ \A k \in DOMAIN nodes[id].output_connections :
                  \E i \in DOMAIN connections :
                      /\ connections[i].from_module = id
                      /\ connections[i].to_module
                           = nodes[id].output_connections[k]
            /\ \A k \in DOMAIN nodes[id].input_connections :
                  nodes[id].input_connections[k] # NoModule
                  => \E i \in DOMAIN connections :
                        /\ connections[i].to_module = id
                        /\ connections[i].to_input = k - 1
                        /\ connections[i].from_module
                             = nodes[id].input_connections[k]

\* C30: in every reachable state of a sequencer that has at least one
\* step, current_step is a valid index of the steps, after any sequence of
\* tick, play, pause, stop, reset, resize and changes of loop_enabled.
C30_CurrentStepValid ==
    Len(sequencer.steps) >= 1 => sequencer.current_step < Len(sequencer.steps)

====
